---------------------------- MODULE Spec2Model ----------------------------
(***************************************************************************)
(* A model of NextDrupalBase (packages/next-drupal/src/next-drupal-base.ts) *)
(* : the auth setter, getAuthorizationHeader, getAccessToken with its token *)
(* cache, fetch and the error translation, run by concurrent asynchronous   *)
(* calls that suspend at the awaits of the source.                          *)
(*                                                                          *)
(* JavaScript values are modelled as follows.  A string is a TLA+ string;   *)
(* `undefined` is the value Undef.  An auth value is a record with one      *)
(* field per property the source reads, Undef where the property is absent, *)
(* and a `kind` for `typeof auth`.  Time is Date.now() in milliseconds.     *)
(***************************************************************************)
EXTENDS Integers, Sequences, FiniteSets, TLC

(***************************************************************************)
(* Bounds of the model.                                                     *)
(***************************************************************************)
\* Date.now() advances in steps of TickMs up to MaxNow.
TickMs == 1000
MaxNow == 2000
\* The number of top-level calls (fetch, getAccessToken) ever started.
MaxStarts == 2
\* The largest expires_in (seconds) the token endpoint answers with.
MaxExpiresIn == 2

\* The call slots: two calls can be in flight at the same time.
Calls == {"c1", "c2"}

(***************************************************************************)
(* Program constants.                                                       *)
(***************************************************************************)
Undef == "undefined"

DEFAULT_AUTH_URL == "/oauth/token"

DEFAULT_FRONT_PAGE == << "/", "h", "o", "m", "e" >>

\* token.expires_in * 1000 in the token setter.
MsPerSecond == 1000

TokenErrorPrefix == "Error while fetching new access token: "

AuthNotConfigured == "auth is not configured. See https://next-drupal.org/docs/client/auth"

ClientIdSecretRequired == "'clientId' and 'clientSecret' required. See https://next-drupal.org/docs/client/auth"

(***************************************************************************)
(* Strings: truthiness, UTF-8 bytes, base64.                                *)
(***************************************************************************)
\* !x is false: x is neither undefined nor the empty string.
Truthy(x) == x # Undef /\ x # ""

\* The UTF-8 bytes of the (ASCII) strings the model uses as credentials.
Utf8(s) ==
  CASE s = "" -> <<>>
    [] s = "a" -> <<97>>
    [] s = "b" -> <<98>>
    [] s = "id" -> <<105, 100>>
    [] s = "id2" -> <<105, 100, 50>>
    [] s = "sec" -> <<115, 101, 99>>
    [] s = "sec2" -> <<115, 101, 99, 50>>

B64Alphabet ==
  << "A","B","C","D","E","F","G","H","I","J","K","L","M","N","O","P",
     "Q","R","S","T","U","V","W","X","Y","Z","a","b","c","d","e","f",
     "g","h","i","j","k","l","m","n","o","p","q","r","s","t","u","v",
     "w","x","y","z","0","1","2","3","4","5","6","7","8","9","+","/" >>

B64Char(n) == B64Alphabet[n + 1]

\* Buffer.from(bytes).toString("base64")
RECURSIVE Base64(_)
Base64(b) ==
  IF Len(b) = 0 THEN ""
  ELSE IF Len(b) = 1 THEN
    B64Char(b[1] \div 4) \o B64Char((b[1] % 4) * 16) \o "=="
  ELSE IF Len(b) = 2 THEN
    B64Char(b[1] \div 4) \o B64Char((b[1] % 4) * 16 + b[2] \div 16)
      \o B64Char((b[2] % 16) * 4) \o "="
  ELSE
    B64Char(b[1] \div 4) \o B64Char((b[1] % 4) * 16 + b[2] \div 16)
      \o B64Char((b[2] % 16) * 4 + b[3] \div 64) \o B64Char(b[3] % 64)
      \o Base64(SubSeq(b, 4, Len(b)))

\* "Basic " + Buffer.from(`${username}:${password}`).toString("base64")
BasicHeader(username, password) ==
  "Basic " \o Base64(Utf8(username) \o <<58>> \o Utf8(password))

(***************************************************************************)
(* Auth values.                                                             *)
(***************************************************************************)
AuthValue(kind, u, p, ci, cs, at, tt, sc, url, val) ==
  [kind |-> kind, username |-> u, password |-> p, clientId |-> ci,
   clientSecret |-> cs, access_token |-> at, token_type |-> tt,
   scope |-> sc, url |-> url, value |-> val]

\* auth === undefined
NoAuth ==
  AuthValue("undefined", Undef, Undef, Undef, Undef, Undef, Undef, Undef, Undef, Undef)

AuthObject(u, p, ci, cs, at, tt, sc) ==
  AuthValue("object", u, p, ci, cs, at, tt, sc, Undef, Undef)

\* A pre-built header string, and a callback returning one.
AuthString(s) ==
  AuthValue("string", Undef, Undef, Undef, Undef, Undef, Undef, Undef, Undef, s)

AuthCallback(s) ==
  AuthValue("function", Undef, Undef, Undef, Undef, Undef, Undef, Undef, Undef, s)

isBasicAuth(a) == a.username # Undef /\ a.password # Undef

isAccessTokenAuth(a) == a.access_token # Undef /\ a.token_type # Undef

isClientIdSecretAuth(a) == a.clientId # Undef /\ a.clientSecret # Undef

(***************************************************************************)
(* Tokens, responses, errors.                                               *)
(***************************************************************************)
AccessToken(at, tt, e) == [access_token |-> at, token_type |-> tt, expires_in |-> e]

NoToken == AccessToken(Undef, Undef, 0)

\* A response body: whether it parses as JSON and, when it does, its
\* `message`, its `errors` list (<<>> when absent or empty) and, for a token
\* response, the token it carries.
Body(parses, message, errors, tok) ==
  [parses |-> parses, message |-> message, errors |-> errors, token |-> tok]

Response(status, statusText, type, body) ==
  [status |-> status, statusText |-> statusText, type |-> type, body |-> body]

NoResponse == Response(0, Undef, Undef, Body(FALSE, Undef, <<>>, NoToken))

\* Response.ok
ResponseOk(r) == r.status >= 200 /\ r.status <= 299

\* An error detail is a string (text) or a list of JSON:API error objects.
Detail(text, errors) == [text |-> text, errors |-> errors]

NoDetail == Detail(Undef, <<>>)

Err(type, message, status, detail, prefix) ==
  [type |-> type, message |-> message, status |-> status, detail |-> detail,
   prefix |-> prefix]

NoError == Err("none", Undef, 0, NoDetail, Undef)

ConfigError(message) == Err("Error", message, 0, NoDetail, Undef)

\* What response.json() rejects with on a body that is not JSON.
JsonSyntaxError == Err("SyntaxError", Undef, 0, NoDetail, Undef)

\* What the transport rejects with (a network failure).
TransportError == Err("TransportError", "network", 0, NoDetail, Undef)

\* What new URL(...) throws on a text it cannot parse.
InvalidUrlError == Err("TypeError", "Invalid URL", 0, NoDetail, Undef)

\* new JsonApiErrors(errors, response.status, messagePrefix)
JsonApiErrors(detail, status, prefix) ==
  Err("JsonApiErrors", Undef, status, detail, prefix)

\* getErrorsFromResponse: [threw, error, detail, read]; read: whether it called
\* response.json().
getErrorsFromResponse(r) ==
  IF r.type = "application/json" THEN
    IF ~r.body.parses
      THEN [threw |-> TRUE, error |-> JsonSyntaxError, detail |-> NoDetail, read |-> TRUE]
    ELSE IF Truthy(r.body.message) THEN
      [threw |-> FALSE, error |-> NoError, detail |-> Detail(r.body.message, <<>>),
       read |-> TRUE]
    ELSE [threw |-> FALSE, error |-> NoError, detail |-> Detail(r.statusText, <<>>),
          read |-> TRUE]
  ELSE IF r.type = "application/vnd.api+json" THEN
    IF ~r.body.parses
      THEN [threw |-> TRUE, error |-> JsonSyntaxError, detail |-> NoDetail, read |-> TRUE]
    ELSE IF Len(r.body.errors) > 0 THEN
      [threw |-> FALSE, error |-> NoError, detail |-> Detail(Undef, r.body.errors),
       read |-> TRUE]
    ELSE [threw |-> FALSE, error |-> NoError, detail |-> Detail(r.statusText, <<>>),
          read |-> TRUE]
  ELSE [threw |-> FALSE, error |-> NoError, detail |-> Detail(r.statusText, <<>>),
        read |-> FALSE]

\* throwIfJsonErrors: the error it raises, NoError when it raises nothing.
throwIfJsonErrors(r, messagePrefix) ==
  IF ~ResponseOk(r) THEN
    LET e == getErrorsFromResponse(r)
    IN  IF e.threw THEN e.error ELSE JsonApiErrors(e.detail, r.status, messagePrefix)
  ELSE NoError


(***************************************************************************)
(* Texts the code inspects character by character (URLs, paths, inputs)     *)
(* are sequences of one-character strings.                                  *)
(***************************************************************************)
\* String.prototype.startsWith and endsWith
StartsWith(s, prefix) ==
  Len(prefix) <= Len(s) /\ SubSeq(s, 1, Len(prefix)) = prefix

EndsWith(s, suffix) ==
  Len(suffix) <= Len(s) /\ SubSeq(s, Len(s) - Len(suffix) + 1, Len(s)) = suffix

\* The characters of the token URLs an auth value carries.
Chars(s) ==
  CASE s = "/oauth/token" -> << "/", "o", "a", "u", "t", "h", "/", "t", "o", "k", "e", "n" >>
    [] s = "/t" -> << "/", "t" >>
    [] s = "t" -> << "t" >>
    [] s = "http://a.io/t" ->
         << "h", "t", "t", "p", ":", "/", "/", "a", ".", "i", "o", "/", "t" >>
    [] s = "http://" -> << "h", "t", "t", "p", ":", "/", "/" >>

\* Whether the text is an absolute URL, and where its "://" stands.
HasScheme(u) ==
  \E i \in 2..(Len(u) - 2) :
    /\ SubSeq(u, i, i + 2) = << ":", "/", "/" >>
    /\ \A j \in 1..(i - 1) : u[j] # "/"

SchemeEnd(u) ==
  CHOOSE i \in 2..(Len(u) - 2) :
    /\ SubSeq(u, i, i + 2) = << ":", "/", "/" >>
    /\ \A j \in 1..(i - 1) : u[j] # "/"

\* The first "/" after the authority of an absolute URL (0 when it has no path).
PathStart(u) ==
  LET from == SchemeEnd(u) + 3
      slashes == { i \in from..Len(u) : u[i] = "/" }
  IN  IF slashes = {} THEN 0
      ELSE CHOOSE i \in slashes : \A j \in slashes : i <= j

\* url.origin and url.pathname of an absolute URL without query or fragment
Origin(u) == IF PathStart(u) = 0 THEN u ELSE SubSeq(u, 1, PathStart(u) - 1)

Pathname(u) == IF PathStart(u) = 0 THEN << "/" >> ELSE SubSeq(u, PathStart(u), Len(u))

\* The path up to and including its last "/": what a relative reference is
\* resolved against.
Directory(p) ==
  LET slashes == { i \in 1..Len(p) : p[i] = "/" }
  IN  SubSeq(p, 1, CHOOSE i \in slashes : \A j \in slashes : j <= i)

\* new URL(path, base).toString() for texts without query, fragment, dot
\* segments or a leading "//": an absolute path is returned (with "/" as its
\* path when it has none), a path with a leading "/" replaces the path of the
\* base, and any other path replaces the last segment of the base's path.
ResolveUrl(path, base) ==
  IF HasScheme(path) THEN Origin(path) \o Pathname(path)
  ELSE IF StartsWith(path, << "/" >>) THEN Origin(base) \o path
  ELSE Origin(base) \o Directory(Pathname(base)) \o path

\* Whether new URL(path, base) returns: it throws a TypeError when the
\* absolute URL it has to parse (path, or else base) names no host.
ValidUrl(path, base) ==
  LET HostPresent(u) == Len(u) >= SchemeEnd(u) + 3 /\ u[SchemeEnd(u) + 3] # "/"
  IN  IF HasScheme(path) THEN HostPresent(path)
      ELSE HasScheme(base) /\ HostPresent(base)

(***************************************************************************)
(* Headers objects: a function from the lower-cased header names to the     *)
(* values.                                                                  *)
(***************************************************************************)
\* The byte-lowercased header name.
LowerName(n) ==
  CASE n = "Content-Type" -> "content-type"
    [] n = "Accept" -> "accept"
    [] n = "ACCEPT" -> "accept"
    [] n = "Authorization" -> "authorization"
    [] n = "X-Custom" -> "x-custom"
    [] OTHER -> n

EmptyHeaders == [n \in {} |-> Undef]

\* Headers.prototype.set, append and get (get's null is Undef here)
HeadersSet(h, n, v) ==
  [k \in DOMAIN h \cup {LowerName(n)} |-> IF k = LowerName(n) THEN v ELSE h[k]]

HeadersAppend(h, n, v) ==
  IF LowerName(n) \in DOMAIN h
    THEN [h EXCEPT ![LowerName(n)] = @ \o ", " \o v]
    ELSE HeadersSet(h, n, v)

HeadersGet(h, n) == IF LowerName(n) \in DOMAIN h THEN h[LowerName(n)] ELSE Undef

\* new Headers(init) for a sequence of <<name, value>> pairs: the entries of
\* an object or of an array of pairs, none when init is undefined
RECURSIVE HeadersFrom(_)
HeadersFrom(pairs) ==
  IF pairs = <<>> THEN EmptyHeaders
  ELSE LET n == Len(pairs)
       IN  HeadersAppend(HeadersFrom(SubSeq(pairs, 1, n - 1)), pairs[n][1], pairs[n][2])

DEFAULT_HEADERS ==
  << << "Content-Type", "application/json" >>, << "Accept", "application/json" >> >>

\* fetch's merge that lets the instance headers win over the per-call ones.
MergeHeaders_InstanceWins(instance, initHeaders) ==
  [k \in DOMAIN instance \cup DOMAIN HeadersFrom(initHeaders) |->
     IF k \in DOMAIN instance THEN instance[k] ELSE HeadersFrom(initHeaders)[k]]

\* fetch: new Headers(this.headers), then every key of new Headers(init.headers)
\* set on it (own is new Headers(init.headers), built once).
MergeHeaders(instance, initHeaders) ==
  CHOOSE merged \in
    { [k \in DOMAIN instance \cup DOMAIN own |->
         IF k \in DOMAIN own THEN own[k] ELSE instance[k]] :
      own \in {HeadersFrom(initHeaders)} } : TRUE

\* The input of a fetch: a string, or a Request object with its URL.
Input(kind, text) == [kind |-> kind, text |-> text]

\* A request body: none, the pairs of a URLSearchParams ("form") or the
\* members of a stringified object ("json").
RequestBody(kind, fields) == [kind |-> kind, fields |-> fields]

NoBody == RequestBody("none", <<>>)

\* The init of a fetch without withAuth; an absent method or credentials is
\* Undef, absent headers are no pairs.
FetchInit(method, hdrs, body, credentials) ==
  [method |-> method, headers |-> hdrs, body |-> body, credentials |-> credentials]

NoInit == FetchInit(Undef, <<>>, NoBody, Undef)

\* fetch: init.credentials = "include"
Credentials(init) == "include"


(***************************************************************************)
(* The state of a client and of the calls made on it.                       *)
(***************************************************************************)
VARIABLES
  accessToken,          \* the accessToken option (NoToken when not given)
  fetcher,              \* whether a custom fetcher was given
  auth,                 \* _auth, as the auth setter stored it
  token,                \* _token (NoToken when undefined)
  tokenExpiresOn,       \* _tokenExpiresOn (0 when undefined)
  tokenRequestDetails,  \* _tokenRequestDetails (NoAuth when undefined)
  now,                  \* Date.now()
  calls,                \* the call in flight in each slot, where it is suspended
  last,                 \* the call that settled (returned or threw) last
  assigned,             \* the last assignment to `auth` after construction
  started,              \* the number of calls started so far
  dispatched,           \* history: the number of token requests issued so far
  storeLog,             \* history: the token requests whose responses were
                        \* stored, in the order of the stores
  headers,              \* _headers, as the headers setter stored them
  baseUrl,              \* baseUrl
  frontPage             \* frontPage

vars ==
  << accessToken, fetcher, auth, token, tokenExpiresOn, tokenRequestDetails,
     now, calls, last, assigned, started, dispatched, storeLog, headers,
     baseUrl, frontPage >>

client == << accessToken, fetcher, auth, assigned, headers, baseUrl, frontPage >>

cache == << token, tokenExpiresOn, tokenRequestDetails >>

history == << dispatched, storeLog >>

\* The request handed to the transport: the input and the members of init;
\* authorization is the Authorization entry of its headers.
Request(via, purpose, input, method, hdrs, body, credentials) ==
  [via |-> via, purpose |-> purpose, input |-> input, method |-> method,
   headers |-> hdrs, body |-> body, credentials |-> credentials,
   authorization |-> HeadersGet(hdrs, "Authorization")]

NoRequest == Request(Undef, Undef, Input(Undef, <<>>), Undef, EmptyHeaders, NoBody, Undef)

\* The input string every call of fetch is made with where the input does not
\* matter.
ResourcePath == << "/", "a" >>

\* buildUrl(path).toString(), without search parameters
buildUrl(path) == ResolveUrl(path, baseUrl)

\* fetch that rewrites every string input.
RewriteInput_EveryString(input) ==
  IF input.kind = "string" THEN Input("string", baseUrl \o input.text) ELSE input

\* fetch: a string input with a leading "/" becomes `${this.baseUrl}${input}`.
RewriteInput(input) ==
  IF input.kind = "string" /\ StartsWith(input.text, << "/" >>)
    THEN Input("string", baseUrl \o input.text)
    ELSE input

\* op: the top-level operation; pc: where it stands; withAuth: "none" (falsy),
\* "instance" (true) or "override" (an auth value); authArg: the override, or
\* getAccessToken's argument; tokAuth: getAccessToken's local `auth`; seq: the
\* number of its token request; saw: what its cache check found (history);
\* resp: the token endpoint's response; tok: what
\* getAccessToken returned; req: the last request handed to the transport;
\* tokenCalls, fetchCalls: how often the fetch inside getAccessToken and the
\* top-level fetch invoked the transport; bodyReads: how often the call read
\* the body of resp; outcome, result, error: how the call settled; args, value:
\* the arguments and the return value of a call of one of the helper methods;
\* input, init: the arguments of the call's fetch of the resource; path: the
\* path a call of one of the path methods returned; rejected: what the
\* transport rejected the call's request with (history); answer: the response
\* the transport resolved the call's resource request with (history); merged:
\* the local `headers` of fetch, merged when the call was made; header,
\* failure: what the promise a suspended call awaits has settled with, the
\* Authorization header or what was thrown.
IdleCall ==
  [op |-> "none", pc |-> "idle", withAuth |-> "none", authArg |-> NoAuth,
   tokAuth |-> NoAuth, seq |-> 0, saw |-> "none", resp |-> NoResponse,
   tok |-> NoToken,
   req |-> NoRequest, tokenCalls |-> 0, fetchCalls |-> 0, bodyReads |-> 0,
   outcome |-> "none", result |-> NoResponse, error |-> NoError,
   args |-> <<>>, value |-> Undef, input |-> Input(Undef, <<>>), init |-> NoInit,
   path |-> <<>>, rejected |-> NoError, answer |-> NoResponse,
   merged |-> EmptyHeaders, header |-> Undef, failure |-> NoError]

(***************************************************************************)
(* The auth setter.                                                         *)
(***************************************************************************)
\* Whether `this.auth = a` throws.
AuthSetterThrows(a) ==
  /\ a.kind = "object"
  /\ IF a.username # Undef \/ a.password # Undef
       THEN ~Truthy(a.username) \/ ~Truthy(a.password)
     ELSE IF a.access_token # Undef \/ a.token_type # Undef
       THEN ~Truthy(a.access_token) \/ ~Truthy(a.token_type)
     ELSE ~Truthy(a.clientId) \/ ~Truthy(a.clientSecret)

\* A setter that stores the default url over the url of the object.
AuthSetterValue_DefaultUrlWins(a) ==
  IF a.kind = "object" /\ isClientIdSecretAuth(a)
    THEN [a EXCEPT !.url = DEFAULT_AUTH_URL]
    ELSE a

\* What `this.auth = a` stores when it does not throw.
AuthSetterValue(a) ==
  IF a.kind = "object" /\ isClientIdSecretAuth(a) /\ a.url = Undef
    THEN [a EXCEPT !.url = DEFAULT_AUTH_URL]
    ELSE a

(***************************************************************************)
(* getAuthorizationHeader and the synchronous part of getAccessToken.       *)
(***************************************************************************)
\* A getAuthorizationHeader that tries clientId + clientSecret first.
getAuthorizationHeader_ClientFirst(a) ==
  IF isClientIdSecretAuth(a) THEN
    [branch |-> "clientIdSecret", header |-> Undef]
  ELSE IF isBasicAuth(a) THEN
    [branch |-> "basic", header |-> BasicHeader(a.username, a.password)]
  ELSE IF isAccessTokenAuth(a) THEN
    [branch |-> "accessToken", header |-> a.token_type \o " " \o a.access_token]
  ELSE IF a.kind = "string" THEN [branch |-> "string", header |-> a.value]
  ELSE IF a.kind = "function" THEN [branch |-> "callback", header |-> a.value]
  ELSE [branch |-> "unconfigured", header |-> Undef]

\* getAuthorizationHeader: the branch it takes and, for the branches that need
\* no token, the header it returns.
getAuthorizationHeader(a) ==
  IF isBasicAuth(a) THEN
    [branch |-> "basic", header |-> BasicHeader(a.username, a.password)]
  ELSE IF isClientIdSecretAuth(a) THEN
    [branch |-> "clientIdSecret", header |-> Undef]
  ELSE IF isAccessTokenAuth(a) THEN
    [branch |-> "accessToken", header |-> a.token_type \o " " \o a.access_token]
  ELSE IF a.kind = "string" THEN [branch |-> "string", header |-> a.value]
  ELSE IF a.kind = "function" THEN [branch |-> "callback", header |-> a.value]
  ELSE [branch |-> "unconfigured", header |-> Undef]

\* `Bearer ${token.access_token}`
BearerHeader(t) == "Bearer " \o t.access_token

\* getAccessToken's local `auth`: the argument over the instance auth.
TokenAuth(arg) ==
  IF isClientIdSecretAuth(arg)
    THEN [arg EXCEPT !.url = IF arg.url = Undef THEN DEFAULT_AUTH_URL ELSE arg.url]
  ELSE IF isClientIdSecretAuth(auth) THEN auth
  ELSE NoAuth

\* A cache check with the expiry comparison the wrong way round.
CanReuseToken_ExpiryInverted(a) ==
  /\ token # NoToken
  /\ now > tokenExpiresOn
  /\ tokenRequestDetails.clientId = a.clientId
  /\ tokenRequestDetails.clientSecret = a.clientSecret
  /\ tokenRequestDetails.scope = a.scope

\* A cache check that does not compare the scope.
CanReuseToken_IgnoresScope(a) ==
  /\ token # NoToken
  /\ now < tokenExpiresOn
  /\ tokenRequestDetails.clientId = a.clientId
  /\ tokenRequestDetails.clientSecret = a.clientSecret

\* A cache check that still reuses the token at the instant it expires.
CanReuseToken_ExpiryInclusive(a) ==
  /\ token # NoToken
  /\ now <= tokenExpiresOn
  /\ tokenRequestDetails.clientId = a.clientId
  /\ tokenRequestDetails.clientSecret = a.clientSecret
  /\ tokenRequestDetails.scope = a.scope

\* A cache check that also compares the token url.
CanReuseToken_SameUrl(a) ==
  /\ token # NoToken
  /\ now < tokenExpiresOn
  /\ tokenRequestDetails.clientId = a.clientId
  /\ tokenRequestDetails.clientSecret = a.clientSecret
  /\ tokenRequestDetails.scope = a.scope
  /\ tokenRequestDetails.url = a.url

\* The cache check of getAccessToken.
CanReuseToken(a) ==
  /\ token # NoToken
  /\ now < tokenExpiresOn
  /\ tokenRequestDetails.clientId = a.clientId
  /\ tokenRequestDetails.clientSecret = a.clientSecret
  /\ tokenRequestDetails.scope = a.scope

\* History: what the cache check found for the request parameters a.
Observed(a) ==
  IF token = NoToken THEN "absent"
  ELSE IF now >= tokenExpiresOn THEN "expired"
  ELSE IF \/ tokenRequestDetails.clientId # a.clientId
          \/ tokenRequestDetails.clientSecret # a.clientSecret
          \/ tokenRequestDetails.scope # a.scope THEN "mismatch"
  ELSE "fresh"

\* A getAccessToken that looks at the accessToken option only after it has
\* found clientId + clientSecret.
getAccessTokenStart_AuthFirst(arg) ==
  IF ~isClientIdSecretAuth(arg) /\ ~isClientIdSecretAuth(auth) THEN
    [kind |-> "throw", tok |-> NoToken, tokAuth |-> NoAuth, saw |-> "none",
     error |-> IF auth.kind = "undefined" THEN ConfigError(AuthNotConfigured)
               ELSE ConfigError(ClientIdSecretRequired)]
  ELSE IF accessToken # NoToken THEN
    [kind |-> "return", tok |-> accessToken, error |-> NoError, tokAuth |-> NoAuth,
     saw |-> "none"]
  ELSE IF ~ValidUrl(Chars(TokenAuth(arg).url), baseUrl) THEN
    [kind |-> "throw", tok |-> NoToken, tokAuth |-> NoAuth, saw |-> "none",
     error |-> InvalidUrlError]
  ELSE IF CanReuseToken(TokenAuth(arg)) THEN
    [kind |-> "return", tok |-> token, error |-> NoError, tokAuth |-> TokenAuth(arg),
     saw |-> Observed(TokenAuth(arg))]
  ELSE
    [kind |-> "request", tok |-> NoToken, error |-> NoError, tokAuth |-> TokenAuth(arg),
     saw |-> Observed(TokenAuth(arg))]

\* A getAccessToken that, finding no token to reuse, returns what is cached
\* instead of waiting for a new token.
getAccessTokenStart_NoWait(arg) ==
  IF accessToken # NoToken THEN
    [kind |-> "return", tok |-> accessToken, error |-> NoError, tokAuth |-> NoAuth,
     saw |-> "none"]
  ELSE IF ~isClientIdSecretAuth(arg) /\ ~isClientIdSecretAuth(auth) THEN
    [kind |-> "throw", tok |-> NoToken, tokAuth |-> NoAuth, saw |-> "none",
     error |-> IF auth.kind = "undefined" THEN ConfigError(AuthNotConfigured)
               ELSE ConfigError(ClientIdSecretRequired)]
  ELSE IF ~ValidUrl(Chars(TokenAuth(arg).url), baseUrl) THEN
    [kind |-> "throw", tok |-> NoToken, tokAuth |-> NoAuth, saw |-> "none",
     error |-> InvalidUrlError]
  ELSE
    [kind |-> "return", tok |-> token, error |-> NoError, tokAuth |-> TokenAuth(arg),
     saw |-> Observed(TokenAuth(arg))]

\* getAccessToken up to its first await: it returns a token, throws, or goes
\* on to request a token with `tokAuth`.
getAccessTokenStart(arg) ==
  IF accessToken # NoToken THEN
    [kind |-> "return", tok |-> accessToken, error |-> NoError, tokAuth |-> NoAuth,
     saw |-> "none"]
  ELSE IF ~isClientIdSecretAuth(arg) /\ ~isClientIdSecretAuth(auth) THEN
    [kind |-> "throw", tok |-> NoToken, tokAuth |-> NoAuth, saw |-> "none",
     error |-> IF auth.kind = "undefined" THEN ConfigError(AuthNotConfigured)
               ELSE ConfigError(ClientIdSecretRequired)]
  ELSE IF ~ValidUrl(Chars(TokenAuth(arg).url), baseUrl) THEN
    [kind |-> "throw", tok |-> NoToken, tokAuth |-> NoAuth, saw |-> "none",
     error |-> InvalidUrlError]
  ELSE IF CanReuseToken(TokenAuth(arg)) THEN
    [kind |-> "return", tok |-> token, error |-> NoError, tokAuth |-> TokenAuth(arg),
     saw |-> Observed(TokenAuth(arg))]
  ELSE
    [kind |-> "request", tok |-> NoToken, error |-> NoError, tokAuth |-> TokenAuth(arg),
     saw |-> Observed(TokenAuth(arg))]

\* A fetch that never looks at the fetcher option.
Transport_IgnoresFetcher == "fetch"

\* The transport fetch dispatches to.
Transport == IF fetcher THEN "fetcher" ELSE "fetch"

(***************************************************************************)
(* Steps of a call.  A call that settles leaves its slot and is kept in     *)
(* `last`.                                                                  *)
(***************************************************************************)
Free(c) == calls[c].pc = "idle" /\ started < MaxStarts

Threw(rec, e) == [rec EXCEPT !.pc = "done", !.outcome = "threw", !.error = e]

Returned(rec) == [rec EXCEPT !.pc = "done", !.outcome = "returned"]

\* A fetch whose instance headers kept the Authorization header of the request
\* sent before it.
FetchRequest_SharedHeaders(purpose, input, init, merged, withAuth, header) ==
  Request(Transport, purpose, RewriteInput(input), init.method,
          IF withAuth
            THEN HeadersSet(merged, "Authorization", header)
            ELSE MergeHeaders(IF last.req.authorization # Undef
                                THEN HeadersSet(headers, "Authorization",
                                                last.req.authorization)
                                ELSE headers,
                              init.headers),
          init.body, Credentials(init))

\* What a fetch of input with init hands to the transport: the headers it
\* merged when it was called, with Authorization set to header when withAuth
\* is truthy, the input rewritten with the baseUrl of the moment, and the
\* forced credentials.
FetchRequest(purpose, input, init, merged, withAuth, header) ==
  Request(Transport, purpose, RewriteInput(input), init.method,
          IF withAuth THEN HeadersSet(merged, "Authorization", header) ELSE merged,
          init.body, Credentials(init))

\* The top-level fetch hands the resource request to the transport.
DispatchResource(rec, authorization) ==
  [rec EXCEPT !.pc = "resWait",
              !.req = FetchRequest("resource", rec.input, rec.init, rec.merged,
                                   rec.withAuth # "none", authorization),
              !.fetchCalls = @ + 1]

\* Slot c goes on with rec, or, when rec has settled, is left.
Continue(c, rec) ==
  IF rec.pc = "done"
    THEN calls' = [calls EXCEPT ![c] = IdleCall] /\ last' = rec
    ELSE calls' = [calls EXCEPT ![c] = rec] /\ UNCHANGED last

\* The call is suspended at the await of the Authorization header (fetch) or
\* of the token (getAuthorizationHeader); the promise it awaits has settled
\* with header, or with failure.
AwaitsAuthorization(rec, header, failure) ==
  [rec EXCEPT !.pc = "authWait", !.header = header, !.failure = failure]

\* fetch(input, {withAuth, ...init}) up to its first suspension.  mode = "none":
\* withAuth is falsy, the request is handed to the transport before fetch
\* returns; "instance": withAuth === true; "override": withAuth is the auth
\* value ov.  With withAuth truthy the headers are merged and
\* getAuthorizationHeader is called before fetch returns, at the await of its
\* promise.
fetchInput(c, mode, ov, input, init) ==
  /\ Free(c)
  /\ LET a == IF mode = "instance" THEN auth ELSE ov
         rec == [IdleCall EXCEPT !.op = "fetch", !.withAuth = mode,
                                 !.authArg = IF mode = "override" THEN ov ELSE NoAuth,
                                 !.input = input, !.init = init,
                                 !.merged = MergeHeaders(headers, init.headers)]
         h == getAuthorizationHeader(a)
         g == getAccessTokenStart(a)
     IN  Continue(c,
           IF mode = "none" THEN DispatchResource(rec, Undef)
           ELSE IF h.branch = "unconfigured"
             THEN AwaitsAuthorization(rec, Undef, ConfigError(AuthNotConfigured))
           ELSE IF h.branch # "clientIdSecret"
             THEN AwaitsAuthorization(rec, h.header, NoError)
           ELSE IF g.kind = "return"
             THEN AwaitsAuthorization([rec EXCEPT !.tok = g.tok, !.tokAuth = g.tokAuth,
                                                  !.saw = g.saw],
                                      BearerHeader(g.tok), NoError)
           ELSE IF g.kind = "throw" THEN AwaitsAuthorization(rec, Undef, g.error)
           ELSE [rec EXCEPT !.pc = "tokenPrep", !.tokAuth = g.tokAuth, !.saw = g.saw])
  /\ started' = started + 1
  /\ UNCHANGED << client, cache, now, history >>

\* fetch after `await this.getAuthorizationHeader(...)`: it throws what the
\* promise was rejected with, or sets the Authorization header and hands the
\* request to the transport.
ResumeFetch(c) ==
  /\ calls[c].pc = "authWait"
  /\ calls[c].op = "fetch"
  /\ Continue(c, IF calls[c].failure # NoError
                   THEN Threw(calls[c], calls[c].failure)
                   ELSE DispatchResource(calls[c], calls[c].header))
  /\ UNCHANGED << client, cache, now, started, history >>

\* getAuthorizationHeader(a) called directly, up to its first suspension: the
\* branches that need no token settle before it returns, the clientId +
\* clientSecret branch is suspended at the await of getAccessToken.
CallGetAuthorizationHeader(c, a) ==
  /\ Free(c)
  /\ LET rec == [IdleCall EXCEPT !.op = "getAuthorizationHeader", !.authArg = a]
         h == getAuthorizationHeader(a)
         g == getAccessTokenStart(a)
     IN  Continue(c,
           IF h.branch = "unconfigured"
             THEN Threw(rec, ConfigError(AuthNotConfigured))
           ELSE IF h.branch # "clientIdSecret"
             THEN Returned([rec EXCEPT !.header = h.header, !.value = h.header])
           ELSE IF g.kind = "return"
             THEN AwaitsAuthorization([rec EXCEPT !.tok = g.tok, !.tokAuth = g.tokAuth,
                                                  !.saw = g.saw],
                                      BearerHeader(g.tok), NoError)
           ELSE IF g.kind = "throw" THEN AwaitsAuthorization(rec, Undef, g.error)
           ELSE [rec EXCEPT !.pc = "tokenPrep", !.tokAuth = g.tokAuth, !.saw = g.saw])
  /\ started' = started + 1
  /\ UNCHANGED << client, cache, now, history >>

\* getAuthorizationHeader after `await this.getAccessToken(auth)`: it throws
\* what getAccessToken threw, or returns the Bearer header of the token.
ResumeGetAuthorizationHeader(c) ==
  /\ calls[c].pc = "authWait"
  /\ calls[c].op = "getAuthorizationHeader"
  /\ Continue(c, IF calls[c].failure # NoError
                   THEN Threw(calls[c], calls[c].failure)
                   ELSE Returned([calls[c] EXCEPT !.value = calls[c].header]))
  /\ UNCHANGED << client, cache, now, started, history >>

\* fetch(ResourcePath, {withAuth})
fetch(c, mode, ov) == fetchInput(c, mode, ov, Input("string", ResourcePath), NoInit)

\* getAccessToken(arg) called directly, up to its first suspension.
getAccessToken(c, arg) ==
  /\ Free(c)
  /\ LET rec == [IdleCall EXCEPT !.op = "getAccessToken", !.authArg = arg]
         g == getAccessTokenStart(arg)
     IN  Continue(c,
           IF g.kind = "return"
             THEN Returned([rec EXCEPT !.tok = g.tok, !.tokAuth = g.tokAuth,
                                       !.saw = g.saw])
           ELSE IF g.kind = "throw" THEN Threw(rec, g.error)
           ELSE [rec EXCEPT !.pc = "tokenPrep", !.tokAuth = g.tokAuth, !.saw = g.saw])
  /\ started' = started + 1
  /\ UNCHANGED << client, cache, now, history >>

\* getAccessToken: const url = this.buildUrl(auth.url), fetched as a string
TokenInput(a) == Input("string", buildUrl(Chars(a.url)))

\* A token request body that always names the scope.
TokenBody_AlwaysScope(a) ==
  RequestBody("form", << << "grant_type", "client_credentials" >>,
                         << "scope", a.scope >> >>)

\* getAccessToken: new URLSearchParams({grant_type: "client_credentials"}),
\* with scope set when auth.scope is truthy
TokenBody(a) ==
  RequestBody("form",
              << << "grant_type", "client_credentials" >> >>
              \o (IF a.scope # Undef /\ a.scope # ""
                    THEN << << "scope", a.scope >> >> ELSE <<>>))

\* The init of a token request that carries no Authorization header.
TokenInit_NoAuthorization(a) ==
  FetchInit("POST",
            << << "Accept", "application/json" >>,
               << "Content-Type", "application/x-www-form-urlencoded" >> >>,
            TokenBody(a), Undef)

\* getAccessToken: the init of its fetch
TokenInit(a) ==
  FetchInit("POST",
            << << "Authorization", BasicHeader(a.clientId, a.clientSecret) >>,
               << "Accept", "application/json" >>,
               << "Content-Type", "application/x-www-form-urlencoded" >> >>,
            TokenBody(a), Undef)

\* After `await this.getAuthorizationHeader(clientCredentials)`: the fetch
\* inside getAccessToken hands the token request to the transport.
DispatchTokenRequest(c) ==
  /\ calls[c].pc = "tokenPrep"
  /\ \E rec \in {calls[c]} :
     \E input \in {TokenInput(rec.tokAuth)}, init \in {TokenInit(rec.tokAuth)} :
     \E merged \in {MergeHeaders(headers, init.headers)} :
       calls' = [calls EXCEPT ![c] =
         [rec EXCEPT !.pc = "tokenWait",
                     !.req = FetchRequest("token", input, init, merged, FALSE, Undef),
                     !.seq = dispatched + 1,
                     !.tokenCalls = @ + 1]]
  /\ dispatched' = dispatched + 1
  /\ UNCHANGED << client, cache, now, last, started, storeLog >>

\* A rejection wrapped into an error with the token message prefix.
Propagated_Wrapped(e) == Err("Error", TokenErrorPrefix, 0, NoDetail, TokenErrorPrefix)

\* What a call raises when the transport rejects with e: `await` rethrows e.
Propagated(e) == e

\* The transport rejects the token request with e: the rejection propagates.
TokenReject(c, e) ==
  /\ calls[c].pc = "tokenWait"
  /\ Continue(c, Threw([calls[c] EXCEPT !.rejected = e], Propagated(e)))
  /\ UNCHANGED << client, cache, now, started, history >>

\* A token setter that takes the lifetime for the expiry time.
ExpiresOn_LifetimeOnly(t) == t.expires_in * MsPerSecond

\* The token setter: Date.now() + token.expires_in * 1000.
ExpiresOn(t) == now + t.expires_in * MsPerSecond

\* Request details that are only set while none are stored.
StoredRequestDetails_KeepFirst(rec) ==
  IF tokenRequestDetails # NoAuth THEN tokenRequestDetails ELSE rec.tokAuth

\* Request details taken from the instance auth.
StoredRequestDetails_InstanceAuth(rec) == auth

\* `this._tokenRequestDetails = auth`
StoredRequestDetails(rec) == rec.tokAuth

\* The transport resolves the token request with response r: getAccessToken
\* goes on after `await this.fetch(...)` and calls throwIfJsonErrors, which for
\* a response that is not ok calls getErrorsFromResponse, and that reads the
\* body when the content-type is a JSON one.  getAccessToken is then suspended
\* at `await this.throwIfJsonErrors(...)`.
TokenResponse(c, r) ==
  /\ calls[c].pc = "tokenWait"
  /\ calls' = [calls EXCEPT ![c] =
       [calls[c] EXCEPT !.pc = "tokenCheck",
                        !.resp = r,
                        !.bodyReads = IF ~ResponseOk(r) /\ getErrorsFromResponse(r).read
                                        THEN 1 ELSE 0]]
  /\ UNCHANGED << client, cache, now, last, started, history >>

\* getAccessToken after `await this.throwIfJsonErrors(...)`: it throws what
\* throwIfJsonErrors threw, or calls response.json() and is suspended at its
\* await.
ReadTokenResponse(c) ==
  /\ calls[c].pc = "tokenCheck"
  /\ \E rec \in {calls[c]} :
     \E e \in {throwIfJsonErrors(rec.resp, TokenErrorPrefix)} :
       Continue(c, IF e # NoError
                     THEN Threw(rec, e)
                     ELSE [rec EXCEPT !.pc = "tokenRead", !.bodyReads = @ + 1])
  /\ UNCHANGED << client, cache, now, started, history >>

\* getAccessToken after `await response.json()`: it throws the SyntaxError of
\* a body that is no JSON, or assigns the token and the request details and
\* returns.  A getAccessToken called directly has then returned; a fetch or a
\* getAuthorizationHeader that waits for the token is resumed in a later step.
StoreToken(c) ==
  /\ calls[c].pc = "tokenRead"
  /\ LET rec == calls[c]
         result == rec.resp.body.token
     IN  IF ~rec.resp.body.parses THEN
           /\ Continue(c, Threw(rec, JsonSyntaxError))
           /\ UNCHANGED << cache, storeLog >>
         ELSE
           /\ token' = result
           /\ tokenExpiresOn' = ExpiresOn(result)
           /\ tokenRequestDetails' = StoredRequestDetails(rec)
           /\ storeLog' = Append(storeLog, rec.seq)
           /\ Continue(c,
                IF rec.op = "getAccessToken"
                  THEN Returned([rec EXCEPT !.tok = result])
                  ELSE AwaitsAuthorization([rec EXCEPT !.tok = result],
                                           BearerHeader(result), NoError))
  /\ UNCHANGED << client, now, started, dispatched >>

\* A fetch that raises on a response that is not ok.
Resolved_ThrowsIfNotOk(rec, r) ==
  IF ResponseOk(r) THEN Returned([rec EXCEPT !.answer = r, !.result = r])
  ELSE Threw([rec EXCEPT !.answer = r], throwIfJsonErrors(r, ""))

\* fetch: `return await fetch(input, init)` when the transport resolves with r
Resolved(rec, r) == Returned([rec EXCEPT !.answer = r, !.result = r])

\* The transport resolves the resource request: fetch returns the response.
ResourceResponse(c, r) ==
  /\ calls[c].pc = "resWait"
  /\ Continue(c, Resolved(calls[c], r))
  /\ UNCHANGED << client, cache, now, started, history >>

\* The transport rejects the resource request with e: the rejection propagates.
ResourceReject(c, e) ==
  /\ calls[c].pc = "resWait"
  /\ Continue(c, Threw([calls[c] EXCEPT !.rejected = e], Propagated(e)))
  /\ UNCHANGED << client, cache, now, started, history >>

(***************************************************************************)
(* validateDraftUrl.                                                        *)
(***************************************************************************)
\* What a transport may reject with: an error object with a message, or any
\* other value; `undefined` stands for the values that have no properties.
RejectedUndefined == Err("undefined", Undef, 0, NoDetail, Undef)

Rejections ==
  { TransportError,
    Err("TypeError", "fetch failed", 0, NoDetail, Undef),
    RejectedUndefined }

\* What reading `error.message` of undefined raises.
MessageOfUndefined ==
  Err("TypeError", "Cannot read properties of undefined (reading 'message')", 0,
      NoDetail, Undef)

\* new Response(JSON.stringify({ message: error.message }), { status: 401 })
SynthesizedResponse(e) ==
  Response(401, "", "text/plain;charset=UTF-8", Body(TRUE, e.message, <<>>, NoToken))

\* validateDraftUrl: the init of its fetch, for the searchParams path=/a
DraftInit ==
  FetchInit("POST",
            << << "Accept", "application/vnd.api+json" >>,
               << "Content-Type", "application/json" >> >>,
            RequestBody("json", << << "path", "/a" >> >>), Undef)

\* validateDraftUrl(searchParams) up to its suspension: it posts the search
\* parameters to /next/draft-url with fetch, without withAuth.
validateDraftUrl(c) ==
  /\ Free(c)
  /\ LET rec == [IdleCall EXCEPT !.op = "validateDraftUrl",
                                 !.input = Input("string",
                                   buildUrl(<< "/", "n", "e", "x", "t", "/", "d",
                                               "r", "a", "f", "t", "-", "u", "r",
                                               "l" >>)),
                                 !.init = DraftInit,
                                 !.merged = MergeHeaders(headers, DraftInit.headers)]
     IN  Continue(c, [DispatchResource(rec, Undef) EXCEPT !.pc = "draftWait"])
  /\ started' = started + 1
  /\ UNCHANGED << client, cache, now, history >>

\* The transport resolves: validateDraftUrl returns the response.
DraftResponse(c, r) ==
  /\ calls[c].pc = "draftWait"
  /\ Continue(c, Returned([calls[c] EXCEPT !.result = r]))
  /\ UNCHANGED << client, cache, now, started, history >>

\* The transport rejects with e: the catch block builds a response from
\* e.message.
DraftReject(c, e) ==
  /\ calls[c].pc = "draftWait"
  /\ Continue(c,
       IF e = RejectedUndefined
         THEN Threw([calls[c] EXCEPT !.rejected = e], MessageOfUndefined)
         ELSE Returned([calls[c] EXCEPT !.rejected = e,
                                        !.result = SynthesizedResponse(e)]))
  /\ UNCHANGED << client, cache, now, started, history >>

(***************************************************************************)
(* Paths.  An optional text (locale, defaultLocale, pathPrefix) is defined  *)
(* or not; a segment is undefined, a string or an array of strings.         *)
(***************************************************************************)
Text(t) == [defined |-> TRUE, text |-> t]

NoText == [defined |-> FALSE, text |-> <<>>]

\* Whether an optional text is truthy: defined and not the empty string.
TruthyText(x) == x.defined /\ x.text # <<>>

Segment(kind, text, parts) == [kind |-> kind, text |-> text, parts |-> parts]

PathOptions(pathPrefix, locale, defaultLocale) ==
  [pathPrefix |-> pathPrefix, locale |-> locale, defaultLocale |-> defaultLocale]

\* s.slice(0, -1)
DropLast(s) == SubSeq(s, 1, Len(s) - 1)

\* encodeURIComponent of one character: letters, digits and - _ . ! ~ * ' ( )
\* stay, the other ASCII characters become their percent-encoded byte.
EncodeChar(ch) ==
  CASE ch = "/" -> << "%", "2", "F" >>
    [] ch = " " -> << "%", "2", "0" >>
    [] ch = "%" -> << "%", "2", "5" >>
    [] OTHER -> << ch >>

RECURSIVE encodeURIComponent(_)
encodeURIComponent(part) ==
  IF part = <<>> THEN <<>>
  ELSE EncodeChar(Head(part)) \o encodeURIComponent(Tail(part))

\* parts.map((part) => encodeURIComponent(part)).join("/")
RECURSIVE EncodeAndJoin(_)
EncodeAndJoin(parts) ==
  IF parts = <<>> THEN <<>>
  ELSE IF Len(parts) = 1 THEN encodeURIComponent(parts[1])
  ELSE encodeURIComponent(parts[1]) \o << "/" >> \o EncodeAndJoin(Tail(parts))

\* addLocalePrefix(path, {locale, defaultLocale})
addLocalePrefix(path, locale, defaultLocale) ==
  LET p == IF ~StartsWith(path, << "/" >>) THEN << "/" >> \o path ELSE path
  IN  IF /\ TruthyText(locale)
         /\ ~StartsWith(p, << "/" >> \o locale.text)
         /\ locale # defaultLocale
        THEN << "/" >> \o locale.text \o p
        ELSE p

\* A front page substituted for every empty segment, whatever the prefix.
SubstitutesFrontPage_IgnoresPrefix(joined, pathPrefix) == joined = <<>>

\* constructPathFromSegment: if (!segment && !pathPrefix), after the prefix was
\* normalized and the parts were encoded and joined
SubstitutesFrontPage(joined, pathPrefix) == joined = <<>> /\ pathPrefix = <<>>

\* constructPathFromSegment(segment, options)
constructPathFromSegment(segment, options) ==
  LET given == IF options.pathPrefix.defined THEN options.pathPrefix.text ELSE <<>>
      slashed == IF ~StartsWith(given, << "/" >>) THEN << "/" >> \o given ELSE given
      pathPrefix == IF given = <<>> THEN given
                    ELSE IF EndsWith(slashed, << "/" >>) THEN DropLast(slashed)
                    ELSE slashed
      parts == IF segment.kind = "array" THEN segment.parts
               ELSE IF segment.kind = "string" /\ segment.text # <<>>
                 THEN << segment.text >>
               ELSE <<>>
      joined == EncodeAndJoin(parts)
      orFront == IF SubstitutesFrontPage(joined, pathPrefix) THEN frontPage ELSE joined
      leading == IF orFront # <<>> /\ ~StartsWith(orFront, << "/" >>)
                   THEN << "/" >> \o orFront ELSE orFront
      trimmed == IF EndsWith(leading, << "/" >>) THEN DropLast(leading) ELSE leading
  IN  addLocalePrefix(pathPrefix \o trimmed, options.locale, options.defaultLocale)

\* The arguments of a call of one of the path methods.
PathArgs(path, segment, options) ==
  << [path |-> path, segment |-> segment, options |-> options] >>

NoSegment == Segment("undefined", <<>>, <<>>)

\* constructPathFromSegment(segment, options) called.
CallConstructPathFromSegment(c, segment, options) ==
  /\ Free(c)
  /\ Continue(c, Returned([IdleCall EXCEPT
                             !.op = "constructPathFromSegment",
                             !.args = PathArgs(<<>>, segment, options),
                             !.path = constructPathFromSegment(segment, options)]))
  /\ started' = started + 1
  /\ UNCHANGED << client, cache, now, history >>

\* addLocalePrefix(path, {locale, defaultLocale}) called.
CallAddLocalePrefix(c, path, locale, defaultLocale) ==
  /\ Free(c)
  /\ Continue(c, Returned([IdleCall EXCEPT
                             !.op = "addLocalePrefix",
                             !.args = PathArgs(path, NoSegment,
                                               PathOptions(NoText, locale, defaultLocale)),
                             !.path = addLocalePrefix(path, locale, defaultLocale)]))
  /\ started' = started + 1
  /\ UNCHANGED << client, cache, now, history >>

(***************************************************************************)
(* The error helpers, called on their own.                                  *)
(***************************************************************************)
\* getErrorsFromResponse(r) called directly, up to its first suspension: for a
\* JSON content-type it has called response.json() and is suspended at the
\* await of the body; for every other response it has returned the status
\* text.
CallGetErrorsFromResponse(c, r) ==
  /\ Free(c)
  /\ LET e == getErrorsFromResponse(r)
         rec == [IdleCall EXCEPT !.op = "getErrorsFromResponse", !.resp = r,
                                 !.args = << r >>,
                                 !.bodyReads = IF e.read THEN 1 ELSE 0]
     IN  Continue(c, IF e.read THEN [rec EXCEPT !.pc = "jsonWait"]
                     ELSE Returned([rec EXCEPT !.value = e.detail]))
  /\ started' = started + 1
  /\ UNCHANGED << client, cache, now, history >>

\* getErrorsFromResponse after `await response.json()`: it throws what the
\* parser threw, or returns the message, the errors or the status text.
ResumeGetErrorsFromResponse(c) ==
  /\ calls[c].pc = "jsonWait"
  /\ LET e == getErrorsFromResponse(calls[c].resp)
     IN  Continue(c, IF e.threw THEN Threw(calls[c], e.error)
                     ELSE Returned([calls[c] EXCEPT !.value = e.detail]))
  /\ UNCHANGED << client, cache, now, started, history >>

\* throwIfJsonErrors(r, messagePrefix) called directly, up to its first
\* suspension: for an ok response it has returned; for every other response
\* it has called getErrorsFromResponse and is suspended at the await of its
\* promise.
CallThrowIfJsonErrors(c, r, messagePrefix) ==
  /\ Free(c)
  /\ LET rec == [IdleCall EXCEPT !.op = "throwIfJsonErrors", !.resp = r,
                                 !.args = << r, messagePrefix >>,
                                 !.bodyReads = IF ~ResponseOk(r) /\ getErrorsFromResponse(r).read
                                                 THEN 1 ELSE 0]
     IN  Continue(c, IF ResponseOk(r) THEN Returned(rec)
                     ELSE [rec EXCEPT !.pc = "errorsWait"])
  /\ started' = started + 1
  /\ UNCHANGED << client, cache, now, history >>

\* throwIfJsonErrors after `await this.getErrorsFromResponse(response)`: it
\* throws what getErrorsFromResponse threw, or the JsonApiErrors made of what
\* it returned.
ResumeThrowIfJsonErrors(c) ==
  /\ calls[c].pc = "errorsWait"
  /\ Continue(c, Threw(calls[c],
                       throwIfJsonErrors(calls[c].resp, calls[c].args[2])))
  /\ UNCHANGED << client, cache, now, started, history >>

\* `client.accessToken = t` after construction: accessToken is a public field.
setAccessToken(t) ==
  /\ accessToken = NoToken
  /\ accessToken' = t
  /\ UNCHANGED << fetcher, auth, assigned, cache, now, calls, last, started, history,
                  headers, baseUrl, frontPage >>

\* `client.token = t`: the setter stores the token and its expiry time, and
\* leaves the request details as they are.
setToken(t) ==
  /\ token' = t
  /\ tokenExpiresOn' = ExpiresOn(t)
  /\ UNCHANGED << client, tokenRequestDetails, now, calls, last, started, history >>

\* `client.headers = h`: the setter stores new Headers(h).
setHeaders(h) ==
  /\ headers' = HeadersFrom(h)
  /\ UNCHANGED << accessToken, fetcher, auth, assigned, baseUrl, frontPage, cache, now,
                  calls, last, started, history >>

\* Time passes.
Tick ==
  /\ now + TickMs <= MaxNow
  /\ now' = now + TickMs
  /\ UNCHANGED << client, cache, calls, last, started, history >>

\* `client.auth = a` after construction: the setter validates a and stores it,
\* or throws and stores nothing.
NoAssignment == [done |-> FALSE, arg |-> NoAuth, threw |-> FALSE]

setAuth(a) ==
  /\ ~assigned.done
  /\ started = 0
  /\ assigned' = [done |-> TRUE, arg |-> a, threw |-> AuthSetterThrows(a)]
  /\ auth' = IF AuthSetterThrows(a) THEN auth ELSE AuthSetterValue(a)
  /\ UNCHANGED << accessToken, fetcher, cache, now, calls, last, started, history,
                  headers, baseUrl, frontPage >>

(***************************************************************************)
(* The inputs the calls are made with.                                      *)
(***************************************************************************)
\* clientId + clientSecret values that differ in one field each.
BaseClientAuth == AuthObject(Undef, Undef, "id", "sec", Undef, Undef, Undef)

ClientAuths ==
  { BaseClientAuth,
    AuthObject(Undef, Undef, "id2", "sec", Undef, Undef, Undef),
    AuthObject(Undef, Undef, "id", "sec2", Undef, Undef, Undef),
    AuthObject(Undef, Undef, "id", "sec", Undef, Undef, "editor") }

\* The token endpoint's successful answers: a short-lived and a long-lived token.
OkTokenResponses ==
  { Response(200, "OK", "application/json",
             Body(TRUE, Undef, <<>>, AccessToken("tokA", "Bearer", 1))),
    Response(200, "OK", "application/json",
             Body(TRUE, Undef, <<>>, AccessToken("tokB", "Bearer", MaxExpiresIn))) }

ErrorResponses ==
  { Response(401, "Unauthorized", "application/json",
             Body(TRUE, "invalid_client", <<>>, NoToken)),
    Response(422, "Unprocessable Entity", "application/vnd.api+json",
             Body(TRUE, Undef, <<"Invalid">>, NoToken)),
    Response(500, "Internal Server Error", "text/html",
             Body(FALSE, Undef, <<>>, NoToken)),
    Response(502, "Bad Gateway", "application/json",
             Body(FALSE, Undef, <<>>, NoToken)) }

TokenResponses == OkTokenResponses \cup ErrorResponses

ResourceResponses ==
  { Response(200, "OK", "application/vnd.api+json", Body(TRUE, Undef, <<>>, NoToken)),
    Response(404, "Not Found", "application/vnd.api+json",
             Body(TRUE, Undef, <<"Not found">>, NoToken)) }

\* The accessToken option, when given.
SuppliedToken == AccessToken("supplied", "Bearer", 300)

(***************************************************************************)
(* The specification of concurrent calls on a client whose auth is a        *)
(* clientId + clientSecret pair.                                            *)
(***************************************************************************)
\* The baseUrl the clients are constructed with, and one with a path.
SiteUrl == << "h", "t", "t", "p", ":", "/", "/", "d", ".", "i", "o" >>

SiteUrlWithPath == SiteUrl \o << "/", "c", "m", "s" >>

\* A client constructed with baseUrl SiteUrl and without the headers and
\* frontPage options.
DefaultOptions ==
  /\ headers = HeadersFrom(DEFAULT_HEADERS)
  /\ baseUrl = SiteUrl
  /\ frontPage = DEFAULT_FRONT_PAGE

InitState ==
  /\ token = NoToken
  /\ tokenExpiresOn = 0
  /\ tokenRequestDetails = NoAuth
  /\ now = 0
  /\ calls = [c \in Calls |-> IdleCall]
  /\ last = IdleCall
  /\ assigned = NoAssignment
  /\ started = 0
  /\ dispatched = 0
  /\ storeLog = <<>>

Init ==
  /\ accessToken \in {NoToken, SuppliedToken}
  /\ fetcher = FALSE
  /\ auth = AuthSetterValue(BaseClientAuth)
  /\ DefaultOptions
  /\ InitState

\* Concurrent calls of fetch with withAuth === true and of getAccessToken,
\* without an argument and with every kind of credentials; the token endpoint
\* answers with a token or with 401, the resource request is answered with 200.
Next ==
  \/ \E c \in Calls : fetch(c, "instance", NoAuth)
  \/ \E c \in Calls : ResumeFetch(c)
  \/ \E c \in Calls, a \in {NoAuth} \cup ClientAuths : getAccessToken(c, a)
  \/ \E c \in Calls : DispatchTokenRequest(c)
  \/ \E c \in Calls, r \in {x \in TokenResponses : x.status < 402} :
       TokenResponse(c, r)
  \/ \E c \in Calls : ReadTokenResponse(c)
  \/ \E c \in Calls : StoreToken(c)
  \/ \E c \in Calls, r \in {x \in ResourceResponses : x.status = 200} :
       ResourceResponse(c, r)
  \/ Tick

Spec == Init /\ [][Next]_vars

\* Concurrent calls of getAccessToken, for the scope of the instance auth and
\* for another, answered with a token or with 401, on a client whose
\* application also assigns a token of its own, with a lifetime of one second.
NextToken ==
  \/ \E c \in Calls, a \in {NoAuth, [BaseClientAuth EXCEPT !.scope = "editor"]} :
       getAccessToken(c, a)
  \/ \E c \in Calls : DispatchTokenRequest(c)
  \/ \E c \in Calls, r \in {x \in TokenResponses : x.status < 402} :
       TokenResponse(c, r)
  \/ \E c \in Calls : ReadTokenResponse(c)
  \/ \E c \in Calls : StoreToken(c)
  \/ setToken(AccessToken("mine", "Bearer", 1))
  \/ Tick

SpecToken == Init /\ [][NextToken]_vars

\* The next step of the call of slot c: its continuation after an await, or
\* the transport's answer to its request.
Progress(c) ==
  \/ ResumeFetch(c)
  \/ DispatchTokenRequest(c)
  \/ \E r \in {x \in TokenResponses : x.status < 402} : TokenResponse(c, r)
  \/ ReadTokenResponse(c)
  \/ StoreToken(c)
  \/ TokenReject(c, TransportError)
  \/ \E r \in ResourceResponses : ResourceResponse(c, r)
  \/ ResourceReject(c, TransportError)

\* Concurrent calls of fetch and getAccessToken on the instance auth, where
\* the runtime resumes every suspended call and the transport answers every
\* request, with a response (a token or 401 for a token request) or a
\* rejection.
NextLive ==
  \/ \E c \in Calls : fetch(c, "none", NoAuth)
  \/ \E c \in Calls : fetch(c, "instance", NoAuth)
  \/ \E c \in Calls : ResumeFetch(c)
  \/ \E c \in Calls : getAccessToken(c, NoAuth)
  \/ \E c \in Calls : DispatchTokenRequest(c)
  \/ \E c \in Calls, r \in {x \in TokenResponses : x.status < 402} :
       TokenResponse(c, r)
  \/ \E c \in Calls : ReadTokenResponse(c)
  \/ \E c \in Calls : StoreToken(c)
  \/ \E c \in Calls : TokenReject(c, TransportError)
  \/ \E c \in Calls, r \in ResourceResponses : ResourceResponse(c, r)
  \/ \E c \in Calls : ResourceReject(c, TransportError)
  \/ Tick

SpecLive == Init /\ [][NextLive]_vars /\ \A c \in Calls : WF_vars(Progress(c))

(***************************************************************************)
(* The specification of one call on a client constructed without auth, to   *)
(* which any auth value may be assigned before the call, or passed to the   *)
(* call as its withAuth override.                                           *)
(***************************************************************************)
\* Every combination of present and absent fields of an auth object.
AuthObjects ==
  { AuthObject(u, p, ci, cs, at, tt, Undef) :
      u \in {Undef, "", "a"}, p \in {Undef, "b"},
      ci \in {Undef, "id"}, cs \in {Undef, "sec"},
      at \in {Undef, "tk"}, tt \in {Undef, "Bearer"} }

AuthValues == AuthObjects \cup {AuthString("Custom abc"), AuthCallback("Callback abc")}

InitAuth ==
  /\ accessToken \in {NoToken, SuppliedToken}
  /\ fetcher \in BOOLEAN
  /\ auth = NoAuth
  /\ DefaultOptions
  /\ InitState

NextAuth ==
  \/ \E a \in AuthValues : setAuth(a)
  \/ started = 0 /\ fetch("c1", "none", NoAuth)
  \/ started = 0 /\ fetch("c1", "instance", NoAuth)
  \/ \E a \in AuthValues : started = 0 /\ fetch("c1", "override", a)
  \/ \E c \in Calls : ResumeFetch(c)
  \/ \E a \in AuthValues : started = 0 /\ CallGetAuthorizationHeader("c1", a)
  \/ \E c \in Calls : ResumeGetAuthorizationHeader(c)
  \/ \E a \in {NoAuth, BaseClientAuth} : started = 0 /\ getAccessToken("c1", a)
  \/ \E c \in Calls : DispatchTokenRequest(c)
  \/ \E c \in Calls, r \in TokenResponses : TokenResponse(c, r)
  \/ \E c \in Calls : ReadTokenResponse(c)
  \/ \E c \in Calls : StoreToken(c)
  \/ \E c \in Calls : TokenReject(c, TransportError)
  \/ \E c \in Calls, r \in ResourceResponses : ResourceResponse(c, r)
  \/ \E c \in Calls : ResourceReject(c, TransportError)
  \/ started = 0 /\ validateDraftUrl("c1")
  \/ \E c \in Calls, r \in ResourceResponses : DraftResponse(c, r)
  \/ \E c \in Calls, e \in Rejections : DraftReject(c, e)

SpecAuth == InitAuth /\ [][NextAuth]_vars

(***************************************************************************)
(* The specification of a client whose accessToken option is given at       *)
(* construction or assigned later, when a token may be cached and calls may *)
(* be in flight, and whose instance auth is absent, a username + password   *)
(* pair or a clientId + clientSecret pair.                                  *)
(***************************************************************************)
BasicAuth == AuthObject("a", "b", Undef, Undef, Undef, Undef, Undef)

InitSupplied ==
  /\ accessToken \in {NoToken, SuppliedToken}
  /\ fetcher = FALSE
  /\ auth \in {NoAuth, AuthSetterValue(BasicAuth), AuthSetterValue(BaseClientAuth)}
  /\ DefaultOptions
  /\ InitState

NextSupplied ==
  \/ setAccessToken(SuppliedToken)
  \/ \E c \in Calls,
         a \in {NoAuth, BaseClientAuth, [BaseClientAuth EXCEPT !.scope = "editor"]} :
       getAccessToken(c, a)
  \/ \E c \in Calls : fetch(c, "instance", NoAuth)
  \/ \E c \in Calls : ResumeFetch(c)
  \/ \E c \in Calls : DispatchTokenRequest(c)
  \/ \E c \in Calls, r \in OkTokenResponses : TokenResponse(c, r)
  \/ \E c \in Calls : ReadTokenResponse(c)
  \/ \E c \in Calls : StoreToken(c)
  \/ \E c \in Calls, r \in {x \in ResourceResponses : x.status = 200} :
       ResourceResponse(c, r)
  \/ Tick

SpecSupplied == InitSupplied /\ [][NextSupplied]_vars

(***************************************************************************)
(* The specification of the rejections: concurrent calls on a client with   *)
(* clientId + clientSecret auth whose transport answers the token requests  *)
(* with success and rejects any request with any value.                     *)
(***************************************************************************)
NextReject ==
  \/ \E c \in Calls : fetch(c, "none", NoAuth)
  \/ \E c \in Calls : fetch(c, "instance", NoAuth)
  \/ \E c \in Calls : ResumeFetch(c)
  \/ \E c \in Calls : getAccessToken(c, NoAuth)
  \/ \E c \in Calls : DispatchTokenRequest(c)
  \/ \E c \in Calls, r \in OkTokenResponses : TokenResponse(c, r)
  \/ \E c \in Calls : ReadTokenResponse(c)
  \/ \E c \in Calls : StoreToken(c)
  \/ \E c \in Calls, e \in Rejections : TokenReject(c, e)
  \/ \E c \in Calls, e \in Rejections : ResourceReject(c, e)
  \/ Tick

SpecReject == Init /\ [][NextReject]_vars

(***************************************************************************)
(* The specification of the requests: one call of fetch or getAccessToken   *)
(* on a client constructed with or without the headers option and with a    *)
(* baseUrl with or without a path, for string and Request inputs, inits     *)
(* with and without headers and credentials, and token URLs and scopes of   *)
(* every form.                                                              *)
(***************************************************************************)
\* The values of the headers option: absent, the defaults with an
\* Authorization entry, and a header of the application.
HeadersOptions ==
  { DEFAULT_HEADERS,
    DEFAULT_HEADERS \o << << "Authorization", "Basic aW5zdDppbnN0" >> >>,
    << << "X-Custom", "1" >> >> }

\* Inputs: a path with a leading "/", a path without, an absolute URL, the
\* empty string, and a Request object (whose url is absolute).
FetchInputs ==
  { Input("string", ResourcePath),
    Input("string", << "a" >>),
    Input("string", Chars("http://a.io/t")),
    Input("string", <<>>),
    Input("Request", Chars("http://a.io/t")) }

FetchInits ==
  { NoInit,
    FetchInit("POST", << << "ACCEPT", "text/html" >> >>, NoBody, "omit"),
    FetchInit(Undef, << << "Authorization", "Bearer mine" >>, << "X-Custom", "2" >> >>,
              NoBody, "same-origin"),
    FetchInit("GET", << << "accept", "a/a" >>, << "Accept", "b/b" >> >>, NoBody, Undef) }

\* clientId + clientSecret values without and with a url and a scope.
TokenAuths ==
  { BaseClientAuth,
    [BaseClientAuth EXCEPT !.url = "/t"],
    [BaseClientAuth EXCEPT !.url = "t", !.scope = "editor"],
    [BaseClientAuth EXCEPT !.url = "http://a.io/t", !.scope = ""] }

InitFetch ==
  /\ accessToken = NoToken
  /\ fetcher \in BOOLEAN
  /\ auth \in {NoAuth, AuthSetterValue(BasicAuth)}
               \cup { AuthSetterValue(a) : a \in TokenAuths }
  /\ \E h \in HeadersOptions : headers = HeadersFrom(h)
  /\ baseUrl \in {SiteUrl, SiteUrlWithPath}
  /\ frontPage = DEFAULT_FRONT_PAGE
  /\ InitState

NextFetch ==
  \/ started = 0 /\ \E input \in FetchInputs, init \in FetchInits :
                      fetchInput("c1", "none", NoAuth, input, init)
  \/ started = 0 /\ \E input \in FetchInputs, init \in FetchInits :
                      fetchInput("c1", "instance", NoAuth, input, init)
  \/ started = 0 /\ \E ov \in {BasicAuth} \cup TokenAuths, input \in FetchInputs,
                         init \in FetchInits :
                      fetchInput("c1", "override", ov, input, init)
  \/ ResumeFetch("c1")
  \/ \E h \in HeadersOptions : setHeaders(h)
  \/ started = 0 /\ \E a \in {NoAuth} \cup TokenAuths : getAccessToken("c1", a)
  \/ DispatchTokenRequest("c1")
  \/ \E r \in OkTokenResponses : TokenResponse("c1", r)
  \/ ReadTokenResponse("c1")
  \/ StoreToken("c1")
  \/ \E r \in ResourceResponses : ResourceResponse("c1", r)

SpecFetch == InitFetch /\ [][NextFetch]_vars

(***************************************************************************)
(* The specification of one fetch after another on a client with username   *)
(* + password or clientId + clientSecret auth, constructed with or without  *)
(* the headers option: each fetch is made without withAuth, with            *)
(* withAuth === true or with an override auth, and with any init.           *)
(***************************************************************************)
InitLeak ==
  /\ accessToken = NoToken
  /\ fetcher = FALSE
  /\ auth \in {AuthSetterValue(BasicAuth), AuthSetterValue(BaseClientAuth)}
  /\ \E h \in HeadersOptions : headers = HeadersFrom(h)
  /\ baseUrl = SiteUrl
  /\ frontPage = DEFAULT_FRONT_PAGE
  /\ InitState

NextLeak ==
  \/ \E init \in FetchInits :
       fetchInput("c1", "none", NoAuth, Input("string", ResourcePath), init)
  \/ \E init \in FetchInits :
       fetchInput("c1", "instance", NoAuth, Input("string", ResourcePath), init)
  \/ \E ov \in {BasicAuth, AuthString("Custom abc")}, init \in FetchInits :
       fetchInput("c1", "override", ov, Input("string", ResourcePath), init)
  \/ ResumeFetch("c1")
  \/ \E h \in HeadersOptions : setHeaders(h)
  \/ DispatchTokenRequest("c1")
  \/ \E r \in OkTokenResponses : TokenResponse("c1", r)
  \/ ReadTokenResponse("c1")
  \/ StoreToken("c1")
  \/ \E r \in ResourceResponses : ResourceResponse("c1", r)

SpecLeak == InitLeak /\ [][NextLeak]_vars

(***************************************************************************)
(* The specification of the token urls: concurrent calls of getAccessToken  *)
(* on a client with clientId + clientSecret auth, without an argument and   *)
(* with the instance's credentials under another token url (a path, an      *)
(* absolute URL, a text that is no URL) or another scope.                   *)
(***************************************************************************)
NextUrl ==
  \/ \E c \in Calls,
         a \in { NoAuth,
                 [BaseClientAuth EXCEPT !.url = "/t"],
                 [BaseClientAuth EXCEPT !.url = "http://a.io/t"],
                 [BaseClientAuth EXCEPT !.url = "http://"],
                 [BaseClientAuth EXCEPT !.url = "/t", !.scope = "editor"] } :
       getAccessToken(c, a)
  \/ \E c \in Calls : DispatchTokenRequest(c)
  \/ \E c \in Calls, r \in OkTokenResponses : TokenResponse(c, r)
  \/ \E c \in Calls : ReadTokenResponse(c)
  \/ \E c \in Calls : StoreToken(c)
  \/ Tick

SpecUrl == Init /\ [][NextUrl]_vars

(***************************************************************************)
(* The specification of the error helpers: one call of getErrorsFromResponse *)
(* or throwIfJsonErrors after the other, on every kind of response.         *)
(***************************************************************************)
\* Bodies: not JSON; JSON without message and errors; JSON with an empty or a
\* non-empty message, with an empty or a non-empty errors list.
HelperBodies ==
  {Body(FALSE, Undef, <<>>, NoToken)}
    \cup { Body(TRUE, msg, errs, NoToken) :
             msg \in {Undef, "", "Bad request"}, errs \in {<<>>, <<"Invalid">>} }

\* Undef as content-type: the response has no content-type header.
HelperResponses ==
  { Response(st,
             IF st = 200 THEN "OK" ELSE IF st = 404 THEN "Not Found" ELSE "Bad Gateway",
             type, b) :
      st \in {200, 404, 502},
      type \in {"application/json", "application/vnd.api+json", "text/html", Undef},
      b \in HelperBodies }

InitErrors ==
  /\ accessToken = NoToken
  /\ fetcher = FALSE
  /\ auth = NoAuth
  /\ DefaultOptions
  /\ InitState

NextErrors ==
  \/ \E r \in HelperResponses : CallGetErrorsFromResponse("c1", r)
  \/ ResumeGetErrorsFromResponse("c1")
  \/ \E r \in HelperResponses, mp \in {"", TokenErrorPrefix} :
       CallThrowIfJsonErrors("c1", r, mp)
  \/ ResumeThrowIfJsonErrors("c1")

SpecErrors == InitErrors /\ [][NextErrors]_vars

(***************************************************************************)
(* The specification of the assignments: on a client constructed with any   *)
(* kind of auth, one assignment of any auth value, with and without a url,  *)
(* and then a call that uses the instance auth.                             *)
(***************************************************************************)
InitSetAuth ==
  /\ accessToken = NoToken
  /\ fetcher = FALSE
  /\ auth \in {NoAuth, AuthSetterValue(BasicAuth), AuthSetterValue(BaseClientAuth),
               AuthSetterValue([BaseClientAuth EXCEPT !.url = "/t"])}
  /\ DefaultOptions
  /\ InitState

NextSetAuth ==
  \/ \E a \in AuthValues \cup TokenAuths
               \cup {[BasicAuth EXCEPT !.clientId = "id", !.clientSecret = "sec"]} :
       setAuth(a)
  \/ started = 0 /\ assigned.done /\ fetch("c1", "instance", NoAuth)
  \/ ResumeFetch("c1")
  \/ started = 0 /\ assigned.done /\ getAccessToken("c1", NoAuth)
  \/ DispatchTokenRequest("c1")
  \/ \E r \in OkTokenResponses : TokenResponse("c1", r)
  \/ ReadTokenResponse("c1")
  \/ StoreToken("c1")
  \/ \E r \in ResourceResponses : ResourceResponse("c1", r)

SpecSetAuth == InitSetAuth /\ [][NextSetAuth]_vars

(***************************************************************************)
(* The specification of the statuses: a fetch, with or without withAuth, or  *)
(* a getAccessToken, whose requests are answered with every kind of         *)
(* response, and then throwIfJsonErrors called on the response the fetch    *)
(* returned.                                                                *)
(***************************************************************************)
NextStatus ==
  \/ started = 0 /\ fetch("c1", "none", NoAuth)
  \/ started = 0 /\ fetch("c1", "instance", NoAuth)
  \/ ResumeFetch("c1")
  \/ started = 0 /\ getAccessToken("c1", NoAuth)
  \/ DispatchTokenRequest("c1")
  \/ \E r \in TokenResponses : TokenResponse("c1", r)
  \/ ReadTokenResponse("c1")
  \/ StoreToken("c1")
  \/ \E r \in HelperResponses : ResourceResponse("c1", r)
  \/ \E mp \in {"", TokenErrorPrefix} :
       /\ started = 1 /\ last.op = "fetch" /\ last.outcome = "returned"
       /\ CallThrowIfJsonErrors("c1", last.result, mp)
  \/ ResumeThrowIfJsonErrors("c1")

SpecStatus == Init /\ [][NextStatus]_vars

(***************************************************************************)
(* The specification of the path methods: a call of                         *)
(* constructPathFromSegment or addLocalePrefix on a client with the default *)
(* or with another front page.                                              *)
(***************************************************************************)
Locales == { NoText, Text(<<>>), Text(<< "e", "n" >>), Text(<< "e", "s" >>) }

Segments ==
  { NoSegment,
    Segment("string", <<>>, <<>>),
    Segment("string", << "a" >>, <<>>),
    Segment("string", << "a", "/", "c" >>, <<>>),
    Segment("string", << "e", "n", "g" >>, <<>>),
    Segment("array", <<>>, <<>>),
    Segment("array", <<>>, << <<>> >>),
    Segment("array", <<>>, << << "a" >> >>),
    Segment("array", <<>>, << << "e", "n" >>, << "a", " ", "c" >> >>),
    Segment("array", <<>>, << << "a" >>, <<>> >>),
    Segment("array", <<>>, << << "a" >>, <<>>, <<>> >>),
    Segment("array", <<>>, << <<>>, <<>>, << "a" >> >>) }

Paths ==
  { <<>>, << "/" >>, << "a" >>, << "/", "a" >>, << "/", "e", "n" >>,
    << "/", "e", "n", "/", "a" >>, << "e", "n", "/", "a" >>,
    << "/", "e", "n", "g" >>, << "/", "a", "/", "e", "n" >> }

InitPaths ==
  /\ accessToken = NoToken
  /\ fetcher = FALSE
  /\ auth = NoAuth
  /\ headers = HeadersFrom(DEFAULT_HEADERS)
  /\ baseUrl = SiteUrl
  /\ frontPage \in { DEFAULT_FRONT_PAGE, << "/" >>, << "h", "o", "m", "e", "/" >> }
  /\ InitState

NextPaths ==
  \/ started = 0 /\ \E segment \in Segments,
                         pp \in { NoText, Text(<<>>), Text(<< "/" >>), Text(<< "b" >>),
                                  Text(<< "/", "b", "/" >>),
                                  Text(<< "/", "b", "/", "/" >>) },
                         l \in Locales, d \in Locales :
                      CallConstructPathFromSegment("c1", segment, PathOptions(pp, l, d))
  \/ started = 0 /\ \E path \in Paths, l \in Locales, d \in Locales :
                      CallAddLocalePrefix("c1", path, l, d)

SpecPaths == InitPaths /\ [][NextPaths]_vars

(***************************************************************************)
(* Vocabulary of the properties.  A step is described by the state before   *)
(* it (unprimed) and the state after it (primed).                           *)
(***************************************************************************)
\* A call starts in this step.
Started == started' = started + 1

\* The call that started in this step: in its slot, or settled at once.
NewCall ==
  IF \E c \in Calls : calls'[c] # calls[c]
    THEN calls'[CHOOSE c \in Calls : calls'[c] # calls[c]]
    ELSE last'

\* The call of slot c moves in this step, and what it is after the step.
Moves(c) == calls[c].pc # "idle" /\ calls'[c] # calls[c]

After(c) == IF calls'[c].pc = "idle" THEN last' ELSE calls'[c]

\* The auth value a fetch resolves its header from.
UsedAuth(rec) == IF rec.withAuth = "instance" THEN auth ELSE rec.authArg

HasBasicPair(a) == a.username # Undef /\ a.password # Undef

HasClientPair(a) == a.clientId # Undef /\ a.clientSecret # Undef

HasTokenPair(a) == a.access_token # Undef /\ a.token_type # Undef

\* The call asks getAccessToken for a token: directly, or as a fetch whose auth
\* is a clientId + clientSecret pair.
AsksToken(rec) ==
  \/ rec.op = "getAccessToken"
  \/ /\ \/ rec.op = "fetch" /\ rec.withAuth # "none"
        \/ rec.op = "getAuthorizationHeader"
     /\ ~HasBasicPair(UsedAuth(rec))
     /\ HasClientPair(UsedAuth(rec))

\* The clientId, clientSecret and scope the call asks a token for.
Requested(rec) ==
  IF rec.op \in {"fetch", "getAuthorizationHeader"} THEN UsedAuth(rec)
  ELSE IF HasClientPair(rec.authArg) THEN rec.authArg
  ELSE auth

SameParams(a, b) ==
  /\ a.clientId = b.clientId
  /\ a.clientSecret = b.clientSecret
  /\ a.scope = b.scope

\* A token is cached and not expired.
CachedUnexpired == token # NoToken /\ now < tokenExpiresOn

\* The call is suspended with its Authorization header resolved, without a
\* request of its own so far.
HeaderResolved(rec, header) ==
  /\ rec.pc = "authWait"
  /\ rec.failure = NoError
  /\ rec.header = header
  /\ rec.tokenCalls = 0
  /\ rec.fetchCalls = 0
  /\ rec.req = NoRequest

\* The call of slot c is resumed in this step with the header that was
\* resolved for it: a fetch hands its resource request to the transport with
\* that header, a getAuthorizationHeader returns it.
ResumedWithHeader(c) ==
  /\ Moves(c)
  /\ calls[c].pc = "authWait"
  /\ calls[c].failure = NoError

HeaderUsed(c) ==
  /\ After(c).tokenCalls = calls[c].tokenCalls
  /\ After(c).tok = calls[c].tok
  /\ UNCHANGED << cache, dispatched >>
  /\ IF calls[c].op = "fetch"
       THEN /\ After(c).pc = "resWait"
            /\ After(c).fetchCalls = 1
            /\ After(c).req.purpose = "resource"
            /\ After(c).req.authorization = calls[c].header
       ELSE /\ After(c).pc = "done"
            /\ After(c).outcome = "returned"
            /\ After(c).value = calls[c].header
            /\ After(c).fetchCalls = 0

(***************************************************************************)
(* C1.  On a client with no accessToken option, a getAccessToken call made  *)
(* while a token is cached, now < expiresAt and the requested clientId,     *)
(* clientSecret and scope are those of the cached request invokes the       *)
(* transport zero times, returns the cached token and leaves the cached     *)
(* token, its expiry and the cached request parameters unchanged; this also *)
(* when the call is made by a fetch, which is then suspended with the       *)
(* Bearer header of the cached token.                                       *)
(***************************************************************************)
C1_CachedTokenReused ==
  [][ ( /\ Started
        /\ accessToken = NoToken
        /\ AsksToken(NewCall)
        /\ CachedUnexpired
        /\ SameParams(tokenRequestDetails, Requested(NewCall)) )
      => ( /\ NewCall.tok = token
           /\ NewCall.tokenCalls = 0
           /\ NewCall.req = NoRequest
           /\ IF NewCall.op = "getAccessToken"
                THEN NewCall.pc = "done" /\ NewCall.outcome = "returned"
                ELSE HeaderResolved(NewCall, "Bearer " \o token.access_token)
           /\ UNCHANGED << cache, dispatched >> ) ]_vars

\* A getAccessToken call has returned the cached token without a request.
C1_Witness ==
  /\ accessToken = NoToken
  /\ last.op = "getAccessToken"
  /\ last.outcome = "returned"
  /\ last.saw = "fresh"
  /\ last.tokenCalls = 0
  /\ last.tok = token
  /\ CachedUnexpired
  /\ now > 0


\* Where a call is between handing its token request to the transport and the
\* end of getAccessToken: waiting for the answer, answered and suspended at
\* throwIfJsonErrors, suspended at response.json().
TokenRequested == {"tokenWait", "tokenCheck", "tokenRead"}

\* The call of slot c has read the body of the answer to its token request
\* and does not raise in this step: getAccessToken stores and returns the
\* token.
TokenStored(c) ==
  Moves(c) /\ calls[c].pc = "tokenRead" /\ After(c).outcome # "threw"

\* The application assigns the token of the client in this step: the token and
\* its expiry are replaced, the cached request details and every call are left
\* as they were.
TokenAssigned ==
  /\ cache' # cache
  /\ calls' = calls
  /\ token' # NoToken
  /\ tokenRequestDetails' = tokenRequestDetails

(***************************************************************************)
(* C2.  Given a cached, unexpired token, a getAccessToken call whose        *)
(* clientId, clientSecret or scope differs from the cached request          *)
(* parameters does not return the cached token: it goes on to issue one     *)
(* token request, for the parameters it asked for, and what it returns is   *)
(* the token of that request's response.                                    *)
(***************************************************************************)
C2_MismatchRefetches ==
  [][ /\ ( /\ Started
           /\ accessToken = NoToken
           /\ AsksToken(NewCall)
           /\ CachedUnexpired
           /\ ~SameParams(tokenRequestDetails, Requested(NewCall)) )
         => ( /\ NewCall.pc = "tokenPrep"
              /\ NewCall.tok = NoToken
              /\ NewCall.tokenCalls = 0
              /\ SameParams(NewCall.tokAuth, Requested(NewCall)) )
      /\ \A c \in Calls :
           /\ (Moves(c) /\ calls[c].pc = "tokenPrep")
                => ( /\ After(c).pc = "tokenWait"
                     /\ After(c).tokenCalls = 1
                     /\ After(c).req.purpose = "token" )
           /\ (Moves(c) /\ calls[c].pc \in TokenRequested)
                => After(c).tokenCalls = 1
           /\ TokenStored(c)
                => ( /\ ResponseOk(After(c).resp)
                     /\ After(c).tok = After(c).resp.body.token
                     /\ After(c).op = "getAccessToken"
                          => After(c).outcome = "returned" ) ]_vars

\* A getAccessToken call that found a token cached for other parameters has
\* returned the token of its own request.
C2_Witness ==
  /\ accessToken = NoToken
  /\ last.op = "getAccessToken"
  /\ last.saw = "mismatch"
  /\ last.outcome = "returned"
  /\ last.tokenCalls = 1
  /\ last.tok = last.resp.body.token
  /\ last.tokAuth.scope = "editor"

(***************************************************************************)
(* C3.  A cached token is never returned from the cache once                *)
(* now >= expiresAt, where expiresAt is the time the token was stored (by   *)
(* the call whose token request was answered, or by an assignment of the    *)
(* application) plus expires_in * 1000: a getAccessToken call made then,    *)
(* also at now = expiresAt exactly, goes on to request a new token.         *)
(***************************************************************************)
C3_ExpiredNeverReused ==
  [][ /\ ( /\ Started
           /\ accessToken = NoToken
           /\ AsksToken(NewCall)
           /\ token # NoToken
           /\ now >= tokenExpiresOn )
         => ( /\ NewCall.pc = "tokenPrep"
              /\ NewCall.tok = NoToken )
      /\ \A c \in Calls :
           /\ (Moves(c) /\ calls[c].pc = "tokenPrep")
                => ( /\ After(c).pc = "tokenWait"
                     /\ After(c).tokenCalls = 1
                     /\ After(c).tok = NoToken )
           /\ TokenStored(c)
                => tokenExpiresOn' = now + After(c).tok.expires_in * 1000
      /\ cache' # cache
           => ( /\ (\E c \in Calls : TokenStored(c)) \/ TokenAssigned
                /\ tokenExpiresOn' = now + token'.expires_in * 1000 ) ]_vars

\* A call made at the very instant the only token ever stored expired, for the
\* parameters of that token, is about to request a new one.
C3_Witness ==
  \E c \in Calls :
    /\ calls[c].pc = "tokenPrep"
    /\ calls[c].saw = "expired"
    /\ Len(storeLog) = 1
    /\ SameParams(tokenRequestDetails, calls[c].tokAuth)
    /\ now = tokenExpiresOn

(***************************************************************************)
(* C4.  Concurrent getAccessToken calls that each found no reusable token   *)
(* are not coalesced: each issues its own token request, whatever the other *)
(* does meanwhile, and each response that is processed overwrites the       *)
(* cached token, expiry and request parameters, so that after both the      *)
(* cache holds those of the response processed later, whichever request was *)
(* issued first.                                                            *)
(***************************************************************************)
C4_LastResponseWins ==
  [][ \A c \in Calls :
        /\ (Moves(c) /\ calls[c].pc = "tokenPrep")
             => ( /\ After(c).pc = "tokenWait"
                  /\ After(c).tokenCalls = 1
                  /\ dispatched' = dispatched + 1 )
        /\ TokenStored(c)
             => ( /\ token' = After(c).resp.body.token
                  /\ tokenExpiresOn' = now + After(c).resp.body.token.expires_in * 1000
                  /\ tokenRequestDetails' = calls[c].tokAuth )
        /\ Moves(c) => \A d \in Calls \ {c} : calls'[d] = calls[d] ]_vars

\* Two requests were issued, the response to the second was stored first, and
\* the cache holds the token and parameters of the response to the first.
C4_Witness ==
  /\ dispatched = 2
  /\ storeLog = <<2, 1>>
  /\ \A c \in Calls : calls[c].pc = "idle"
  /\ last.seq = 1
  /\ last.saw \in {"absent", "expired", "mismatch"}
  /\ token = last.tok
  /\ tokenRequestDetails = last.tokAuth
  /\ tokenRequestDetails.clientId = "id2"


(***************************************************************************)
(* The lifecycle of the cached token.  Absent: no token is cached.          *)
(* Refetching: a token is cached and a call is on its way to replace it.    *)
(* Valid and Expired: a token is cached, no call is on its way to replace   *)
(* it, and now < expiresAt, respectively now >= expiresAt.                  *)
(***************************************************************************)
RequestUnderWay == \E c \in Calls : calls[c].pc \in {"tokenPrep"} \cup TokenRequested

Lifecycle ==
  IF token = NoToken THEN "Absent"
  ELSE IF RequestUnderWay THEN "Refetching"
  ELSE IF now < tokenExpiresOn THEN "Valid"
  ELSE "Expired"

(***************************************************************************)
(* C6 as stated.  The lifecycle of the cached token takes only the          *)
(* transitions Absent to Valid, Valid to Expired, Expired to Refetching,    *)
(* Valid to Refetching, Refetching to Valid and Refetching to Absent.       *)
(***************************************************************************)
C6_StatedTransitionsOnly ==
  [][ Lifecycle' # Lifecycle
        => << Lifecycle, Lifecycle' >> \in
             { << "Absent", "Valid" >>, << "Valid", "Expired" >>,
               << "Expired", "Refetching" >>, << "Valid", "Refetching" >>,
               << "Refetching", "Valid" >>, << "Refetching", "Absent" >> } ]_vars

(***************************************************************************)
(* C6, amended.  The lifecycle of the cached token takes only these         *)
(* transitions: Absent to Valid when the first token is stored, by a call   *)
(* or by an assignment of the application; Absent to Refetching when the    *)
(* first token is so stored while another token request is under way; Valid *)
(* to Expired when time reaches expiresAt; Expired to Refetching when a     *)
(* call starts; Expired to Valid when the application assigns a token;      *)
(* Valid to Refetching when a call starts with other clientId, clientSecret *)
(* or scope than the cached request details; Refetching to Valid; and       *)
(* Refetching to Expired when the request fails, which leaves the expired   *)
(* token cached.  A cached token never becomes Absent.                      *)
(***************************************************************************)
C6_LifecycleTransitions ==
  [][ Lifecycle' # Lifecycle
        => \/ /\ Lifecycle = "Absent"
              /\ Lifecycle' \in {"Valid", "Refetching"}
              /\ (\E c \in Calls : TokenStored(c)) \/ TokenAssigned
              /\ Lifecycle' = "Refetching"
                   => \E d \in Calls :
                        calls'[d].pc \in {"tokenPrep"} \cup TokenRequested
           \/ /\ Lifecycle = "Expired"
              /\ Lifecycle' = "Valid"
              /\ TokenAssigned
              /\ now < tokenExpiresOn'
           \/ /\ Lifecycle = "Valid"
              /\ Lifecycle' = "Expired"
              /\ now' > now
              /\ now' >= tokenExpiresOn
              /\ UNCHANGED cache
           \/ /\ Lifecycle = "Expired"
              /\ Lifecycle' = "Refetching"
              /\ Started
              /\ UNCHANGED cache
           \/ /\ Lifecycle = "Valid"
              /\ Lifecycle' = "Refetching"
              /\ Started
              /\ ~SameParams(tokenRequestDetails, Requested(NewCall))
              /\ UNCHANGED cache
           \/ /\ Lifecycle = "Refetching"
              /\ Lifecycle' = "Valid"
              /\ now < tokenExpiresOn'
           \/ /\ Lifecycle = "Refetching"
              /\ Lifecycle' = "Expired"
              /\ \E c \in Calls : Moves(c) /\ After(c).outcome = "threw"
              /\ now >= tokenExpiresOn
              /\ UNCHANGED cache ]_vars

\* A call that found the cached token expired has failed to get a new one, and
\* the expired token is still cached.
C6_Witness ==
  /\ Lifecycle = "Expired"
  /\ last.saw = "expired"
  /\ last.tokenCalls = 1
  /\ last.outcome = "threw"
  /\ last.resp # NoResponse

(***************************************************************************)
(* C7 as stated.  When the token endpoint answers a token request with a    *)
(* non-success status, getAccessToken raises an error carrying the          *)
(* response's status, the translated error detail (the message of an        *)
(* application/json body, the non-empty errors list of an                   *)
(* application/vnd.api+json body, the status text in every other case) and  *)
(* the prefix "Error while fetching new access token: ", returns no token,  *)
(* and leaves the cached token, expiry and request parameters as they were. *)
(***************************************************************************)
TranslatedDetail(r) ==
  IF r.type = "application/json" /\ r.body.parses /\ Truthy(r.body.message)
    THEN Detail(r.body.message, <<>>)
  ELSE IF r.type = "application/vnd.api+json" /\ r.body.parses /\ Len(r.body.errors) > 0
    THEN Detail(Undef, r.body.errors)
  ELSE Detail(r.statusText, <<>>)

C7_TokenErrorSurfaced ==
  [][ \A c \in Calls :
        ( /\ Moves(c)
          /\ calls[c].pc = "tokenCheck"
          /\ ~ResponseOk(calls[c].resp) )
        => ( /\ After(c).outcome = "threw"
             /\ After(c).error.status = After(c).resp.status
             /\ After(c).error.detail = TranslatedDetail(After(c).resp)
             /\ After(c).error.prefix = TokenErrorPrefix
             /\ After(c).tok = NoToken
             /\ UNCHANGED cache ) ]_vars


\* The call that starts in this step is an authenticated operation that names
\* no auth of its own: fetch with withAuth === true, or getAccessToken().
UsesInstanceAuth(rec) ==
  \/ rec.op = "fetch" /\ rec.withAuth = "instance"
  \/ rec.op = "getAccessToken" /\ rec.authArg = NoAuth

\* The call settled at once by raising the given configuration error, without
\* invoking the transport.
RaisedAtOnce(rec, message) ==
  /\ rec.pc = "done"
  /\ rec.outcome = "threw"
  /\ rec.error.type = "Error"
  /\ rec.error.message = message
  /\ rec.tokenCalls = 0
  /\ rec.fetchCalls = 0
  /\ rec.req = NoRequest

\* The call is suspended on a promise that was rejected with the given
\* configuration error, and has not invoked the transport.
RejectionAwaited(rec, message) ==
  /\ rec.pc = "authWait"
  /\ rec.failure.type = "Error"
  /\ rec.failure.message = message
  /\ rec.tokenCalls = 0
  /\ rec.fetchCalls = 0
  /\ rec.req = NoRequest

\* The call that starts raises the given configuration error without invoking
\* the transport: getAccessToken by the time it returns its promise, a fetch
\* when it is resumed.
Raises(rec, message) ==
  IF rec.op = "fetch" THEN RejectionAwaited(rec, message)
  ELSE RaisedAtOnce(rec, message)

\* Every call that is resumed after the promise it awaited was rejected raises
\* what the promise was rejected with, and invokes no transport.
RejectionsRaised ==
  \A c \in Calls :
    (Moves(c) /\ calls[c].pc = "authWait" /\ calls[c].failure # NoError)
      => ( /\ After(c).pc = "done"
           /\ After(c).outcome = "threw"
           /\ After(c).error = calls[c].failure
           /\ After(c).fetchCalls = 0
           /\ After(c).tokenCalls = calls[c].tokenCalls
           /\ After(c).req = calls[c].req )

(***************************************************************************)
(* C5 as stated.  On a client with no auth, every fetch with                *)
(* withAuth === true and every getAccessToken() raises a configuration      *)
(* error and the transport is never invoked.                                *)
(***************************************************************************)
C5_NoAuthAlwaysRaises ==
  [][ /\ (Started /\ auth = NoAuth /\ UsesInstanceAuth(NewCall))
           => Raises(NewCall, AuthNotConfigured)
      /\ RejectionsRaised ]_vars

(***************************************************************************)
(* C5, amended.  On a client with no auth, every fetch with                 *)
(* withAuth === true raises the configuration error "auth is not            *)
(* configured", and so does getAccessToken() unless the accessToken option  *)
(* is configured, in which case it returns that token; in every one of      *)
(* these cases the transport is never invoked.                              *)
(***************************************************************************)
C5_NoAuthRaises ==
  [][ /\ (Started /\ auth = NoAuth /\ UsesInstanceAuth(NewCall))
           => IF NewCall.op = "getAccessToken" /\ accessToken # NoToken
                THEN /\ NewCall.pc = "done"
                     /\ NewCall.outcome = "returned"
                     /\ NewCall.tok = accessToken
                     /\ NewCall.tokenCalls = 0
                     /\ NewCall.fetchCalls = 0
                     /\ NewCall.req = NoRequest
                ELSE Raises(NewCall, AuthNotConfigured)
      /\ \A c \in Calls :
           (Moves(c) /\ calls[c].pc = "authWait" /\ calls[c].failure # NoError)
             => ( /\ After(c).outcome = "threw"
                  /\ After(c).error = calls[c].failure
                  /\ After(c).fetchCalls = 0
                  /\ After(c).tokenCalls = 0
                  /\ After(c).req = NoRequest ) ]_vars

\* On a client with no auth, a fetch with withAuth === true has raised "auth is
\* not configured" without invoking the transport, although the accessToken
\* option is configured.
C5_Witness ==
  /\ auth = NoAuth
  /\ accessToken = SuppliedToken
  /\ last.op = "fetch"
  /\ last.withAuth = "instance"
  /\ last.outcome = "threw"
  /\ last.error = ConfigError(AuthNotConfigured)
  /\ last.tokenCalls = 0
  /\ last.fetchCalls = 0
  /\ last.req = NoRequest

(***************************************************************************)
(* C8.  Each fetch call hands its request to one transport, the fetcher     *)
(* when one is configured and the global fetch otherwise, and at most once: *)
(* when the transport rejects or answers, with whatever status, the fetch   *)
(* settles without invoking it again, and a fetch whose auth resolution     *)
(* fails never invokes it.  The same holds of the fetch getAccessToken      *)
(* makes for its token request.                                             *)
(***************************************************************************)
C8_TransportAtMostOnce ==
  [][ \A c \in Calls :
        LET rec == After(c)
        IN  (calls'[c] # calls[c]) =>
              /\ rec.fetchCalls <= 1
              /\ rec.tokenCalls <= 1
              /\ rec.req # NoRequest
                   => rec.req.via = (IF fetcher THEN "fetcher" ELSE "fetch")
              /\ rec.fetchCalls = (IF rec.req.purpose = "resource" THEN 1 ELSE 0)
              /\ (rec.op = "fetch" /\ rec.outcome = "threw" /\ rec.req.purpose # "resource")
                   => rec.fetchCalls = 0
              /\ calls[c].pc = "resWait"
                   => ( /\ rec.pc = "done"
                        /\ rec.fetchCalls = 1
                        /\ rec.tokenCalls = calls[c].tokenCalls
                        /\ rec.req = calls[c].req )
              /\ (calls[c].pc \in TokenRequested /\ rec.pc \in TokenRequested)
                   => ( /\ rec.tokenCalls = 1
                        /\ rec.fetchCalls = 0
                        /\ rec.req = calls[c].req )
              /\ (calls[c].pc \in TokenRequested /\ rec.outcome = "threw")
                   => ( /\ rec.pc = "done"
                        /\ rec.tokenCalls = 1
                        /\ rec.fetchCalls = 0
                        /\ rec.req = calls[c].req ) ]_vars

\* With a fetcher configured, a fetch has returned the non-success response the
\* fetcher answered its one invocation with.
C8_Witness ==
  /\ fetcher
  /\ last.op = "fetch"
  /\ last.outcome = "returned"
  /\ last.result.status = 404
  /\ last.req.via = "fetcher"
  /\ last.fetchCalls = 1


\* The Basic headers of the credentials the calls are made with, as RFC 4648
\* gives them: base64("a:b") = "YTpi", base64(":b") = "OmI=".
KnownBasicHeader(username, password) ==
  IF username = "a" /\ password = "b" THEN "Basic YTpi"
  ELSE IF username = "" /\ password = "b" THEN "Basic OmI="
  ELSE "unknown"

\* getAuthorizationHeader has the header without a token request: called by a
\* fetch, the fetch is suspended with it; called directly, it has returned it.
Resolves(rec, header) ==
  IF rec.op = "fetch" THEN HeaderResolved(rec, header)
  ELSE /\ rec.pc = "done"
       /\ rec.outcome = "returned"
       /\ rec.value = header
       /\ rec.tokenCalls = 0
       /\ rec.fetchCalls = 0
       /\ rec.req = NoRequest

(***************************************************************************)
(* C9.  getAuthorizationHeader, called directly or by a fetch with withAuth *)
(* truthy, takes exactly one branch, by the precedence username + password, *)
(* then clientId + clientSecret, then access_token + token_type, then       *)
(* string, then callback, and produces that branch's header, which the      *)
(* request of the fetch then carries: "Basic " + base64(username:password), *)
(* "Bearer " + the access_token that getAccessToken returned, token_type +  *)
(* " " + access_token, the string, the callback's result.  Only the         *)
(* clientId + clientSecret branch can issue a token request: an auth value  *)
(* with both username/password and clientId/clientSecret yields the Basic   *)
(* header without one.                                                      *)
(***************************************************************************)
C9_HeaderPrecedence ==
  [][ /\ ( /\ Started
           /\ \/ NewCall.op = "fetch" /\ NewCall.withAuth # "none"
              \/ NewCall.op = "getAuthorizationHeader" )
         => LET a == UsedAuth(NewCall)
            IN  IF HasBasicPair(a)
                  THEN Resolves(NewCall, KnownBasicHeader(a.username, a.password))
                ELSE IF HasClientPair(a)
                  THEN IF accessToken # NoToken
                         THEN HeaderResolved(NewCall, "Bearer " \o accessToken.access_token)
                         ELSE /\ NewCall.pc = "tokenPrep"
                              /\ NewCall.req = NoRequest
                ELSE IF HasTokenPair(a)
                  THEN Resolves(NewCall, a.token_type \o " " \o a.access_token)
                ELSE IF a.kind \in {"string", "function"}
                  THEN Resolves(NewCall, a.value)
                ELSE Raises(NewCall, AuthNotConfigured)
      /\ \A c \in Calls :
           /\ ResumedWithHeader(c) => HeaderUsed(c)
           /\ (TokenStored(c) /\ After(c).op # "getAccessToken")
                => ( /\ After(c).pc = "authWait"
                     /\ After(c).failure = NoError
                     /\ After(c).header
                          = "Bearer " \o After(c).resp.body.token.access_token )
           /\ ( /\ calls'[c] # calls[c]
                /\ After(c).op \in {"fetch", "getAuthorizationHeader"}
                /\ After(c).tokenCalls > 0 )
                => ( /\ ~HasBasicPair(UsedAuth(After(c)))
                     /\ HasClientPair(UsedAuth(After(c))) ) ]_vars

\* A fetch whose override carries username/password and clientId/clientSecret
\* has been answered, after sending the Basic header without a token request.
C9_Witness ==
  /\ last.op = "fetch"
  /\ last.withAuth = "override"
  /\ last.authArg.username = "a"
  /\ last.authArg.password = "b"
  /\ last.authArg.clientId = "id"
  /\ last.authArg.clientSecret = "sec"
  /\ accessToken = NoToken
  /\ last.outcome = "returned"
  /\ last.req.authorization = "Basic YTpi"
  /\ last.tokenCalls = 0
  /\ last.fetchCalls = 1

\* The fields present in an auth object.
Present(a) ==
  { f \in {"username", "password", "clientId", "clientSecret", "access_token",
           "token_type"} : a[f] # Undef }

\* The fields of the three shapes.
Shapes ==
  { {"username", "password"}, {"clientId", "clientSecret"},
    {"access_token", "token_type"} }

\* An ambiguous or partial field set: one field of a pair without the other, or
\* fields of more than one shape.
AmbiguousOrPartial(a) ==
  /\ a.kind = "object"
  /\ \/ \E sh \in Shapes : Cardinality(Present(a) \cap sh) = 1
     \/ Cardinality({ sh \in Shapes : Present(a) \cap sh # {} }) > 1

\* This step is the assignment `auth = a`, and it is rejected: it raises and
\* the stored auth stays as it was.
AssignmentOf(a) == ~assigned.done /\ assigned'.done /\ assigned'.arg = a

AssignmentRejected == assigned'.threw /\ auth' = auth

(***************************************************************************)
(* C10 as stated.  Every ambiguous or partial auth field set is rejected    *)
(* both when assigned as the instance auth and when passed as a withAuth    *)
(* override, before the transport is invoked.                               *)
(***************************************************************************)
C10_AmbiguousOrPartialRejected ==
  [][ /\ \A a \in AuthObjects :
           (AssignmentOf(a) /\ AmbiguousOrPartial(a)) => AssignmentRejected
      /\ ( /\ Started
           /\ NewCall.op = "fetch"
           /\ NewCall.withAuth = "override"
           /\ AmbiguousOrPartial(NewCall.authArg) )
         => ( /\ NewCall.pc = "authWait"
              /\ NewCall.failure.type = "Error"
              /\ NewCall.tokenCalls = 0
              /\ NewCall.fetchCalls = 0 )
      /\ RejectionsRaised ]_vars

\* The call of slot c hands its resource request to the transport in this step.
DispatchesResource(c) ==
  /\ calls'[c].pc = "resWait"
  /\ calls[c].pc # "resWait"

(***************************************************************************)
(* C11.  A fetch with withAuth truthy has its Authorization header before   *)
(* it hands the resource request to the transport: it is suspended until    *)
(* the header is resolved, and the step that resumes it hands the request   *)
(* over with that header.  When client credentials are used and no reusable *)
(* token is cached, the fetch first suspends, then the token request is     *)
(* handed to the transport, then its response is processed and its token    *)
(* stored, and only a later step hands over the resource request, with the  *)
(* Bearer header of that token; when the token request is rejected or       *)
(* answered with an error, the fetch raises and has never handed over a     *)
(* resource request.                                                        *)
(***************************************************************************)
C11_HeaderBeforeDispatch ==
  [][ /\ ( /\ Started
           /\ NewCall.op = "fetch"
           /\ AsksToken(NewCall)
           /\ accessToken = NoToken
           /\ ~(CachedUnexpired /\ SameParams(tokenRequestDetails, Requested(NewCall))) )
         => ( /\ NewCall.pc = "tokenPrep"
              /\ NewCall.fetchCalls = 0
              /\ NewCall.req = NoRequest )
      /\ \A c \in Calls :
           /\ (Moves(c) /\ calls[c].pc = "tokenPrep")
                => ( /\ calls'[c].pc = "tokenWait"
                     /\ calls'[c].req.purpose = "token"
                     /\ calls'[c].fetchCalls = 0 )
           /\ (calls'[c].pc = "authWait" /\ calls[c].pc # "authWait")
                => ( /\ calls'[c].fetchCalls = 0
                     /\ calls'[c].header # Undef \/ calls'[c].failure # NoError
                     /\ calls[c].pc \in {"idle", "tokenRead"}
                     /\ calls[c].pc = "idle"
                          => ( /\ calls'[c].tokenCalls = 0
                               /\ calls'[c].req = NoRequest )
                     /\ calls[c].pc = "tokenRead"
                          => ( /\ calls'[c].tokenCalls = 1
                               /\ calls'[c].req = calls[c].req
                               /\ ResponseOk(calls'[c].resp)
                               /\ token' = calls'[c].resp.body.token
                               /\ storeLog' = Append(storeLog, calls[c].seq)
                               /\ calls'[c].header
                                    = "Bearer " \o calls'[c].resp.body.token.access_token ) )
           /\ (DispatchesResource(c) /\ calls'[c].withAuth # "none")
                => ( /\ calls[c].pc = "authWait"
                     /\ calls[c].failure = NoError
                     /\ calls[c].header # Undef
                     /\ calls'[c].req.authorization = calls[c].header
                     /\ calls'[c].fetchCalls = 1
                     /\ calls'[c].tokenCalls = calls[c].tokenCalls )
           /\ (Moves(c) /\ calls[c].pc \in {"tokenWait", "tokenCheck"})
                => ( /\ UNCHANGED << cache, storeLog >>
                     /\ calls'[c].pc \notin {"authWait", "resWait"} )
           /\ ( /\ Moves(c)
                /\ calls[c].op = "fetch"
                /\ calls[c].pc \in TokenRequested \cup {"authWait"}
                /\ calls'[c].pc \notin TokenRequested \cup {"authWait", "resWait"} )
                => ( /\ After(c).pc = "done"
                     /\ After(c).outcome = "threw"
                     /\ After(c).fetchCalls = 0
                     /\ After(c).req.purpose # "resource" ) ]_vars

\* A fetch with withAuth === true found no token cached, got one from its own
\* token request and was then answered with the Bearer header of that token.
C11_Witness ==
  /\ last.op = "fetch"
  /\ last.withAuth = "instance"
  /\ last.saw \in {"absent", "expired", "mismatch"}
  /\ last.tokenCalls = 1
  /\ last.fetchCalls = 1
  /\ last.outcome = "returned"
  /\ last.req.purpose = "resource"
  /\ last.req.authorization = "Bearer " \o last.resp.body.token.access_token


(***************************************************************************)
(* C12 as stated.  validateDraftUrl never propagates a transport rejection: *)
(* whenever the transport rejects, it returns a response with status 401    *)
(* whose body carries the message of what the transport rejected with;      *)
(* whenever the transport resolves, it returns that response as it is,      *)
(* whatever its status, without raising.  In both cases the transport was   *)
(* invoked once.                                                            *)
(***************************************************************************)
C12_DraftNeverRaises ==
  [][ \A c \in Calls :
        (Moves(c) /\ calls[c].op = "validateDraftUrl" /\ calls[c].pc = "draftWait")
        => ( /\ After(c).pc = "done"
             /\ After(c).outcome = "returned"
             /\ After(c).error = NoError
             /\ After(c).fetchCalls = 1
             /\ \/ After(c).result \in ResourceResponses
                \/ /\ After(c).result.status = 401
                   /\ After(c).result.body.parses
                   /\ \E e \in Rejections : After(c).result.body.message = e.message ) ]_vars


\* A call of the method op settles in this step, on return or when it is
\* resumed: last' is the settled call.
Settles(op) ==
  /\ last'.op = op
  /\ \/ Started /\ calls' = calls
     \/ \E c \in Calls : Moves(c) /\ calls'[c].pc = "idle"

(***************************************************************************)
(* C13 as stated.  getErrorsFromResponse returns the message of an          *)
(* application/json body that has one, the errors list of an                *)
(* application/vnd.api+json body that has a non-empty one, and in every     *)
(* other case (an unrecognized content-type, a body that fails to parse, an *)
(* empty errors list) the response's status text; it never raises.          *)
(***************************************************************************)
C13_StatusTextFallback ==
  [][ Settles("getErrorsFromResponse")
        => ( /\ last'.outcome = "returned"
             /\ last'.error = NoError
             /\ last'.value = TranslatedDetail(last'.args[1]) ) ]_vars

(***************************************************************************)
(* C14 as stated.  throwIfJsonErrors raises exactly when response.ok is     *)
(* false; the error raised carries the response's status, the given message *)
(* prefix and the translated detail (the errors list of an                  *)
(* application/vnd.api+json body with a non-empty one, the message of an    *)
(* application/json body with one); for an ok response it raises nothing    *)
(* and reads no body.                                                       *)
(***************************************************************************)
C14_RaisesExactlyWhenNotOk ==
  [][ Settles("throwIfJsonErrors")
        => LET r == last'.args[1]
               ok == r.status >= 200 /\ r.status <= 299
           IN  IF ok
                 THEN /\ last'.outcome = "returned"
                      /\ last'.error = NoError
                      /\ last'.bodyReads = 0
                 ELSE /\ last'.outcome = "threw"
                      /\ last'.error.status = r.status
                      /\ last'.error.prefix = last'.args[2]
                      /\ (r.type = "application/vnd.api+json" /\ r.body.parses
                            /\ Len(r.body.errors) > 0)
                           => last'.error.detail = Detail(Undef, r.body.errors)
                      /\ (r.type = "application/json" /\ r.body.parses
                            /\ r.body.message \notin {Undef, ""})
                           => last'.error.detail = Detail(r.body.message, <<>>) ]_vars


(***************************************************************************)
(* C15.  When the accessToken option is configured, every getAccessToken    *)
(* call, made directly with any argument or by a fetch that resolves        *)
(* clientId + clientSecret, on a client with any instance auth, returns the *)
(* pre-supplied token at once, without invoking the transport, and leaves   *)
(* the cached token, expiry and request parameters as they are, whatever    *)
(* they are; the fetch is suspended with the Bearer header of that token    *)
(* and hands its request over with it when it is resumed.                   *)
(***************************************************************************)
C15_SuppliedTokenReturned ==
  [][ (Started /\ accessToken # NoToken)
        => /\ NewCall.op = "getAccessToken"
                => ( /\ NewCall.pc = "done"
                     /\ NewCall.outcome = "returned"
                     /\ NewCall.tok = accessToken
                     /\ NewCall.tokenCalls = 0
                     /\ NewCall.fetchCalls = 0
                     /\ NewCall.req = NoRequest )
           /\ (NewCall.op = "fetch" /\ AsksToken(NewCall))
                => ( /\ NewCall.tok = accessToken
                     /\ HeaderResolved(NewCall, "Bearer " \o accessToken.access_token) )
           /\ UNCHANGED cache
      /\ \A c \in Calls :
           (ResumedWithHeader(c) /\ calls[c].tok = accessToken /\ accessToken # NoToken)
             => ( /\ After(c).pc = "resWait"
                  /\ After(c).tokenCalls = 0
                  /\ After(c).fetchCalls = 1
                  /\ After(c).req.authorization = "Bearer " \o accessToken.access_token
                  /\ UNCHANGED cache ) ]_vars

\* With another token cached and unexpired for the very parameters asked for,
\* getAccessToken has returned the pre-supplied token.
C15_Witness ==
  /\ accessToken = SuppliedToken
  /\ token \notin {NoToken, SuppliedToken}
  /\ now < tokenExpiresOn
  /\ last.op = "getAccessToken"
  /\ last.outcome = "returned"
  /\ last.tok = SuppliedToken
  /\ last.tokenCalls = 0
  /\ SameParams(tokenRequestDetails, Requested(last))

\* The names the headers of the instance and of init are compared under.
HeaderNames == { "content-type", "accept", "authorization", "x-custom" }

\* The indexes of the per-call pairs whose name is k, whatever its case.
PairsNamed(pairs, k) == { i \in 1..Len(pairs) : LowerName(pairs[i][1]) = k }

\* The value the per-call pairs give k: their values in order, joined.
RECURSIVE JoinedFrom(_, _, _)
JoinedFrom(pairs, k, i) ==
  IF i > Len(pairs) THEN ""
  ELSE IF LowerName(pairs[i][1]) # k THEN JoinedFrom(pairs, k, i + 1)
  ELSE IF \E j \in PairsNamed(pairs, k) : j > i
    THEN pairs[i][2] \o ", " \o JoinedFrom(pairs, k, i + 1)
  ELSE pairs[i][2]

\* The header a fetch with withAuth truthy resolves for a username + password
\* pair or for the token it obtained.
ResolvedHeader(rec) ==
  IF HasBasicPair(UsedAuth(rec))
    THEN BasicHeader(UsedAuth(rec).username, UsedAuth(rec).password)
    ELSE "Bearer " \o rec.tok.access_token

\* The call of slot c hands a request to the transport in this step.
Dispatches(c) ==
  /\ calls'[c].pc \in {"resWait", "tokenWait", "draftWait"}
  /\ calls'[c].pc # calls[c].pc

(***************************************************************************)
(* C16.  The headers a fetch hands to the transport are, name by name and   *)
(* whatever the case of the names: the resolved auth header for             *)
(* Authorization when withAuth is truthy; otherwise the per-call value when *)
(* init.headers names the header; otherwise the value the instance headers  *)
(* had when the fetch was called; and no other header.  Every request       *)
(* handed to the transport has credentials "include", whatever              *)
(* init.credentials was.                                                    *)
(***************************************************************************)
C16_HeadersMergedCredentialsIncluded ==
  [][ /\ (Started /\ NewCall.op = "fetch")
           => LET own == NewCall.init.headers
                  merged == NewCall.merged
              IN  /\ DOMAIN merged \subseteq HeaderNames
                  /\ \A k \in HeaderNames :
                       IF PairsNamed(own, k) # {}
                         THEN k \in DOMAIN merged /\ merged[k] = JoinedFrom(own, k, 1)
                       ELSE IF k \in DOMAIN headers
                         THEN k \in DOMAIN merged /\ merged[k] = headers[k]
                       ELSE k \notin DOMAIN merged
      /\ \A c \in Calls :
           /\ Dispatches(c) => calls'[c].req.credentials = "include"
           /\ (Moves(c) /\ calls'[c].pc # "idle") => calls'[c].merged = calls[c].merged
           /\ (DispatchesResource(c) /\ calls'[c].op = "fetch")
                => LET rec == calls'[c]
                       sent == rec.req.headers
                   IN  /\ DOMAIN sent \subseteq HeaderNames
                       /\ \A k \in HeaderNames :
                            IF k = "authorization" /\ rec.withAuth # "none"
                              THEN k \in DOMAIN sent /\ sent[k] = ResolvedHeader(rec)
                            ELSE IF k \in DOMAIN rec.merged
                              THEN k \in DOMAIN sent /\ sent[k] = rec.merged[k]
                            ELSE k \notin DOMAIN sent ]_vars

\* A fetch with withAuth truthy, init.credentials "omit" and an ACCEPT header,
\* called on a client whose headers had Accept and Authorization entries and
\* were replaced while the fetch was suspended, has handed over its request
\* with the per-call Accept, the resolved Authorization and the Content-Type
\* the instance headers had when it was called.
C16_Witness ==
  /\ calls["c1"].pc = "resWait"
  /\ calls["c1"].op = "fetch"
  /\ calls["c1"].withAuth = "instance"
  /\ calls["c1"].init.credentials = "omit"
  /\ calls["c1"].req.credentials = "include"
  /\ "authorization" \in DOMAIN calls["c1"].merged
  /\ calls["c1"].req.headers["accept"] = "text/html"
  /\ calls["c1"].req.headers["authorization"] # calls["c1"].merged["authorization"]
  /\ "content-type" \in DOMAIN calls["c1"].req.headers
  /\ "content-type" \notin DOMAIN headers

\* The call of slot c hands its token request to the transport in this step.
DispatchesToken(c) ==
  /\ calls'[c].pc = "tokenWait"
  /\ calls[c].pc = "tokenPrep"

\* The text of the token URL of the auth value a.
TokenUrlOf(a) == Chars(IF a.url = Undef THEN "/oauth/token" ELSE a.url)

(***************************************************************************)
(* C17.  Every token request is a POST whose URL is the token URL of the    *)
(* auth value used (/oauth/token when it has none) resolved against         *)
(* baseUrl: the URL itself when it is absolute, the origin of baseUrl       *)
(* followed by it when it has a leading "/", the last segment of baseUrl's  *)
(* path replaced by it otherwise.  Its Authorization header is the Basic    *)
(* header of clientId and clientSecret, also when the instance headers have *)
(* an Authorization entry; its Content-Type is                              *)
(* application/x-www-form-urlencoded; its body is a form with               *)
(* grant_type=client_credentials, and with scope exactly when the auth      *)
(* value has a non-empty scope.                                             *)
(***************************************************************************)
C17_TokenRequestShape ==
  [][ \A c \in Calls :
        DispatchesToken(c)
          => LET rec == calls'[c]
                 a == Requested(rec)
                 u == TokenUrlOf(a)
                 sent == rec.req
                 scoped == a.scope # Undef /\ a.scope # ""
             IN  /\ sent.purpose = "token"
                 /\ sent.method = "POST"
                 /\ sent.input.kind = "string"
                 /\ StartsWith(baseUrl, SiteUrl)
                 /\ sent.input.text =
                      ( IF HasScheme(u) THEN u
                        ELSE IF StartsWith(u, << "/" >>) THEN SiteUrl \o u
                        ELSE SiteUrl \o << "/" >> \o u )
                 /\ sent.headers["authorization"]
                      = BasicHeader(a.clientId, a.clientSecret)
                 /\ sent.headers["content-type"] = "application/x-www-form-urlencoded"
                 /\ sent.body.kind = "form"
                 /\ { sent.body.fields[i] : i \in 1..Len(sent.body.fields) }
                      = { << "grant_type", "client_credentials" >> }
                        \cup (IF scoped THEN { << "scope", a.scope >> } ELSE {})
                 /\ Len(sent.body.fields) = IF scoped THEN 2 ELSE 1 ]_vars

\* A token request is in flight for an auth value with a relative url and a
\* scope, on a client whose baseUrl has a path and whose headers have an
\* Authorization entry.
C17_Witness ==
  /\ calls["c1"].pc = "tokenWait"
  /\ calls["c1"].tokAuth.url = "t"
  /\ calls["c1"].tokAuth.scope = "editor"
  /\ baseUrl = SiteUrlWithPath
  /\ "authorization" \in DOMAIN headers
  /\ calls["c1"].req.headers["authorization"] = "Basic aWQ6c2Vj"
  /\ calls["c1"].req.input.text = SiteUrl \o << "/", "t" >>
  /\ Len(calls["c1"].req.body.fields) = 2

(***************************************************************************)
(* C18.  The input a fetch hands to the transport is baseUrl followed by    *)
(* the given input when that is a string whose first character is "/", and  *)
(* the given input itself in every other case: a string without a leading   *)
(* "/" (absolute, relative or empty) and a Request object.                  *)
(***************************************************************************)
C18_RelativeInputRewritten ==
  [][ \A c \in Calls :
        (DispatchesResource(c) /\ calls'[c].op = "fetch")
          => LET given == calls'[c].input
                 sent == calls'[c].req.input
                 leading == /\ given.kind = "string"
                            /\ Len(given.text) > 0
                            /\ given.text[1] = "/"
             IN  /\ leading => sent = [kind |-> "string", text |-> baseUrl \o given.text]
                 /\ ~leading => sent = given
                 /\ (sent.kind = "string" /\ sent.text = baseUrl \o given.text) => leading ]_vars

\* A fetch of "/a" on a client whose baseUrl has a path has handed over the
\* baseUrl followed by "/a".
C18_Witness ==
  /\ calls["c1"].pc = "resWait"
  /\ calls["c1"].op = "fetch"
  /\ calls["c1"].input = [kind |-> "string", text |-> << "/", "a" >>]
  /\ baseUrl = SiteUrlWithPath
  /\ calls["c1"].req.input.text
       = << "h", "t", "t", "p", ":", "/", "/", "d", ".", "i", "o",
            "/", "c", "m", "s", "/", "a" >>

\* The path method called in this step, its arguments and the path returned.
PathCall(op) == Started /\ last'.op = op

Returned_path == last'.path

(***************************************************************************)
(* C19.  The path constructPathFromSegment returns, for every segment,      *)
(* pathPrefix, locale, defaultLocale and front page, starts with exactly    *)
(* one "/" and does not end with "/" unless it is "/".                      *)
(***************************************************************************)
C19_OneLeadingNoTrailingSlash ==
  [][ PathCall("constructPathFromSegment")
        => /\ Len(Returned_path) >= 1
           /\ Returned_path[1] = "/"
           /\ Len(Returned_path) >= 2 => Returned_path[2] # "/"
           /\ Len(Returned_path) >= 2 => Returned_path[Len(Returned_path)] # "/" ]_vars

\* Whether the locale is the first segment of the path.
LeadingSegmentIs(path, locale) ==
  \/ path = << "/" >> \o locale
  \/ ( /\ Len(path) > Len(locale) + 1
       /\ SubSeq(path, 1, Len(locale) + 2) = << "/" >> \o locale \o << "/" >> )

\* The path with a leading slash ensured.
WithLeadingSlash(path) ==
  IF Len(path) > 0 /\ path[1] = "/" THEN path ELSE << "/" >> \o path

(***************************************************************************)
(* C20.  addLocalePrefix returns "/" + locale followed by the path (with a  *)
(* leading slash ensured) exactly when the locale is truthy, differs from   *)
(* defaultLocale and is not the first segment of the path; otherwise it     *)
(* returns the path with a leading slash ensured.                           *)
(***************************************************************************)
C20_LocalePrefixedExactlyWhen ==
  [][ PathCall("addLocalePrefix")
        => LET a == last'.args[1]
               locale == a.options.locale
               p == WithLeadingSlash(a.path)
               prefixes == /\ locale.defined
                           /\ locale.text # <<>>
                           /\ locale # a.options.defaultLocale
                           /\ ~LeadingSegmentIs(p, locale.text)
           IN  Returned_path = IF prefixes THEN << "/" >> \o locale.text \o p ELSE p ]_vars

\* A text with a leading "/" ensured and one trailing "/" removed; the empty
\* text stays empty.
SlashedOnce(t) ==
  IF t = <<>> THEN t
  ELSE LET l == IF t[1] = "/" THEN t ELSE << "/" >> \o t
       IN  IF l[Len(l)] = "/" THEN SubSeq(l, 1, Len(l) - 1) ELSE l

\* The parts of a segment: none for undefined and "", the string itself, or the
\* parts of the array.
PartsOf(segment) ==
  IF segment.kind = "array" THEN segment.parts
  ELSE IF segment.text = <<>> THEN <<>> ELSE << segment.text >>

\* The path constructPathFromSegment is to return before the locale prefix,
\* where substituted says whether the front page stands for the segment.
PathBeforeLocale(a, substituted) ==
  WithLeadingSlash(
    SlashedOnce(IF a.options.pathPrefix.defined THEN a.options.pathPrefix.text ELSE <<>>)
    \o SlashedOnce(IF substituted THEN frontPage ELSE EncodeAndJoin(PartsOf(a.segment))))

\* The returned path is base, with "/" + locale before it only when the locale
\* is defined and differs from defaultLocale.
LocalePrefixedOnlyWhenDiffers(a, base) ==
  \/ Returned_path = base
  \/ /\ Returned_path = << "/" >> \o a.options.locale.text \o base
     /\ a.options.locale.defined
     /\ a.options.locale # a.options.defaultLocale

\* The segment is undefined, the empty string or the empty sequence, and the
\* path prefix is undefined or the empty string.
BothEmptyAsGiven(a) ==
  /\ a.segment.text = <<>> /\ a.segment.parts = <<>>
  /\ a.options.pathPrefix.text = <<>>

\* The encoded and joined parts are empty (undefined, "", [] and [""]), and so
\* is the normalized path prefix (undefined, "" and "/").
BothEmptyAsNormalized(a) ==
  /\ EncodeAndJoin(PartsOf(a.segment)) = <<>>
  /\ SlashedOnce(a.options.pathPrefix.text) = <<>>

(***************************************************************************)
(* C21 as stated.  constructPathFromSegment substitutes the front page      *)
(* exactly when the segment is empty (no segment, the empty string or the   *)
(* empty sequence) and the path prefix is empty; otherwise the path is the  *)
(* normalized prefix followed by the segment, the prefix alone for an empty *)
(* segment; and it is locale-prefixed only when locale differs from         *)
(* defaultLocale.                                                           *)
(***************************************************************************)
C21_FrontPageWhenBothEmpty ==
  [][ PathCall("constructPathFromSegment")
        => LocalePrefixedOnlyWhenDiffers(
             last'.args[1],
             PathBeforeLocale(last'.args[1], BothEmptyAsGiven(last'.args[1]))) ]_vars

(***************************************************************************)
(* C21 as amended.  constructPathFromSegment substitutes the front page     *)
(* exactly when the encoded and joined segment is empty (no segment, "",    *)
(* [] or [""]) and the path prefix is empty after normalization (no prefix, *)
(* "" or "/"); otherwise the path is the normalized prefix followed by the  *)
(* segment, the prefix alone for an empty segment; and it is                *)
(* locale-prefixed only when locale differs from defaultLocale.             *)
(***************************************************************************)
C21_FrontPageWhenBothNormalizeToEmpty ==
  [][ PathCall("constructPathFromSegment")
        => LocalePrefixedOnlyWhenDiffers(
             last'.args[1],
             PathBeforeLocale(last'.args[1], BothEmptyAsNormalized(last'.args[1]))) ]_vars

\* constructPathFromSegment([], {pathPrefix: "/", locale: "es", defaultLocale:
\* "en"}) on a client with front page /home has returned /es/home.
C21_Witness ==
  /\ last.op = "constructPathFromSegment"
  /\ last.args[1].segment = Segment("array", <<>>, <<>>)
  /\ last.args[1].options.pathPrefix = Text(<< "/" >>)
  /\ last.args[1].options.locale = Text(<< "e", "s" >>)
  /\ last.args[1].options.defaultLocale = Text(<< "e", "n" >>)
  /\ frontPage = DEFAULT_FRONT_PAGE
  /\ last.path = << "/", "e", "s", "/", "h", "o", "m", "e" >>

\* Nothing is cached, or a token, its expiry and its request details are.
CacheAbsent == token = NoToken /\ tokenExpiresOn = 0 /\ tokenRequestDetails = NoAuth

CachePresent ==
  /\ token # NoToken /\ token.access_token # Undef
  /\ tokenExpiresOn > 0
  /\ tokenRequestDetails # NoAuth
  /\ tokenRequestDetails.clientId # Undef /\ tokenRequestDetails.clientSecret # Undef

\* The scope a token request body names ("undefined" when it names none).
ScopeIn(body) ==
  IF \E i \in 1..Len(body.fields) : body.fields[i][1] = "scope"
    THEN body.fields[CHOOSE i \in 1..Len(body.fields) : body.fields[i][1] = "scope"][2]
    ELSE "undefined"

(***************************************************************************)
(* C22.  Before and after every step the cached token, its expiry and the   *)
(* cached request details are all absent or all present; and every step     *)
(* that changes one                                                         *)
(* of them is the step of a call whose token request was answered with      *)
(* success: it stores the token of that response, the time of the step plus *)
(* expires_in * 1000 as expiry, and the clientId, clientSecret and scope    *)
(* that the answered request itself carried (in its Basic header and its    *)
(* body).                                                                   *)
(***************************************************************************)
C22_CacheAllOrNothingFromOneRequest ==
  [][ /\ CacheAbsent \/ CachePresent
      /\ CacheAbsent' \/ CachePresent'
      /\ (token' # token \/ tokenExpiresOn' # tokenExpiresOn
            \/ tokenRequestDetails' # tokenRequestDetails)
           => \E c \in Calls :
                /\ calls[c].pc = "tokenRead"
                /\ Moves(c)
                /\ calls[c].req.purpose = "token"
                /\ After(c).resp.status \in 200..299
                /\ token' = After(c).resp.body.token
                /\ tokenExpiresOn' = now + After(c).resp.body.token.expires_in * 1000
                /\ calls[c].req.headers["authorization"]
                     = BasicHeader(tokenRequestDetails'.clientId,
                                   tokenRequestDetails'.clientSecret)
                /\ ScopeIn(calls[c].req.body) = tokenRequestDetails'.scope ]_vars

\* Two concurrent token requests were answered in the reverse order, time has
\* passed before the second store, and the cache holds the token and the
\* parameters of the request answered last.
C22_Witness ==
  /\ storeLog = << 2, 1 >>
  /\ now > 0
  /\ tokenExpiresOn = now + token.expires_in * 1000
  /\ tokenRequestDetails.scope = "editor"
  /\ last.tokAuth.scope = "editor"
  /\ last.seq = 1
  /\ last.tok = token

(***************************************************************************)
(* C23.  When the transport rejects the resource request of a fetch or the  *)
(* token request of a getAccessToken (called directly or by a fetch), the   *)
(* call raises in that step the very value the transport rejected with, it  *)
(* has invoked the transport no more often than before the rejection, and   *)
(* the cached token, its expiry and the cached request details are what     *)
(* they were.                                                               *)
(***************************************************************************)
C23_RejectionPropagatesUnchanged ==
  [][ \A c \in Calls :
        (Moves(c) /\ After(c).rejected # NoError
           /\ After(c).op \in {"fetch", "getAccessToken"})
          => /\ calls[c].pc \in {"tokenWait", "resWait"}
             /\ After(c).pc = "done"
             /\ After(c).outcome = "threw"
             /\ After(c).error = After(c).rejected
             /\ After(c).tokenCalls = calls[c].tokenCalls
             /\ After(c).fetchCalls = calls[c].fetchCalls
             /\ After(c).tokenCalls + After(c).fetchCalls <= 2
             /\ token' = token
             /\ tokenExpiresOn' = tokenExpiresOn
             /\ tokenRequestDetails' = tokenRequestDetails ]_vars

\* The token request of a fetch was rejected with a value that is no error
\* object while a token is cached and time has passed: the fetch raised that
\* value and the cache still holds the token.
C23_Witness ==
  /\ last.op = "fetch"
  /\ last.rejected = RejectedUndefined
  /\ last.error = RejectedUndefined
  /\ last.tokenCalls = 1
  /\ last.fetchCalls = 0
  /\ token # NoToken
  /\ now > 0

(***************************************************************************)
(* C24.  An assignment to the instance auth that is rejected raises and     *)
(* leaves the stored auth what it was.  An assignment of an object with     *)
(* clientId and clientSecret that is accepted stores the fields of the      *)
(* object, with its own url when it has one and with /oauth/token when it   *)
(* has none.  A call that follows uses the stored auth.                     *)
(***************************************************************************)
C24_AssignmentRevalidates ==
  [][ /\ (assigned' # assigned /\ assigned'.threw)
           => /\ auth' = auth
              /\ assigned'.arg.kind = "object"
              /\ ~(HasBasicPair(assigned'.arg) /\ assigned'.arg.username # "")
      /\ ( /\ assigned' # assigned
           /\ ~assigned'.threw
           /\ assigned'.arg.kind = "object"
           /\ HasClientPair(assigned'.arg) )
           => /\ auth'.url = ( IF assigned'.arg.url = Undef THEN "/oauth/token"
                               ELSE assigned'.arg.url )
              /\ [auth' EXCEPT !.url = assigned'.arg.url] = assigned'.arg
      /\ \A c \in Calls :
           DispatchesToken(c)
             => /\ calls'[c].tokAuth = auth
                /\ calls'[c].req.input.text
                     = ( IF HasScheme(Chars(auth.url)) THEN Chars(auth.url)
                         ELSE IF auth.url \in {"/oauth/token", "/t"}
                           THEN SiteUrl \o Chars(auth.url)
                         ELSE SiteUrl \o << "/" >> \o Chars(auth.url) ) ]_vars

\* An object with a clientId alone was assigned to a client constructed with
\* clientId + clientSecret and the url /t: the assignment raised, and the
\* getAccessToken that followed posted to /t.
C24_Witness ==
  /\ assigned.done /\ assigned.threw
  /\ assigned.arg.clientId = "id" /\ assigned.arg.clientSecret = Undef
  /\ auth.url = "/t"
  /\ calls["c1"].pc = "tokenWait"
  /\ calls["c1"].req.input.text = SiteUrl \o << "/", "t" >>

(***************************************************************************)
(* C25.  Whatever response the transport resolves the resource request of a *)
(* fetch with, of whatever status, content-type and body, the fetch returns *)
(* that very response and raises nothing.  A call raises an error made of   *)
(* a response that is not ok only where throwIfJsonErrors runs: in          *)
(* getAccessToken on the token response, and in a call of throwIfJsonErrors *)
(* itself, which raises on the response a fetch returned exactly when that  *)
(* response is not ok.                                                      *)
(***************************************************************************)
C25_FetchReturnsAnyStatus ==
  [][ /\ \A c \in Calls :
           /\ (Moves(c) /\ calls[c].pc = "resWait" /\ After(c).answer # NoResponse)
                => /\ After(c).outcome = "returned"
                   /\ After(c).error = NoError
                   /\ After(c).result = After(c).answer
                   /\ After(c).bodyReads = calls[c].bodyReads
           /\ (Moves(c) /\ After(c).outcome = "threw" /\ After(c).op = "fetch")
                => /\ calls[c].pc \in {"tokenCheck", "tokenRead"}
                   /\ After(c).resp # NoResponse
                   /\ After(c).fetchCalls = 0
      /\ (Started /\ NewCall.op = "throwIfJsonErrors")
           => /\ NewCall.args[1] = last.result
              /\ IF last.result.status \in 200..299
                   THEN NewCall.pc = "done" /\ NewCall.outcome = "returned"
                   ELSE NewCall.pc = "errorsWait"
      /\ \A c \in Calls :
           (Moves(c) /\ calls[c].pc = "errorsWait")
             => /\ After(c).pc = "done"
                /\ After(c).outcome = "threw"
                /\ After(c).args = calls[c].args ]_vars

\* A fetch has returned a 502 response whose body is HTML, and
\* throwIfJsonErrors called on that response has raised an error with status
\* 502.
C25_Witness ==
  /\ started = 2
  /\ last.op = "throwIfJsonErrors"
  /\ last.args[1].status = 502
  /\ last.args[1].type = "text/html"
  /\ last.outcome = "threw"
  /\ last.error.status = 502

(***************************************************************************)
(* C26.  The token request of getAccessToken carries the Basic header of    *)
(* the client credentials and starts no further token request: a fetch with *)
(* withAuth issues at most one token request and invokes the transport at   *)
(* most twice, the token request first and the resource request after it.   *)
(* Where the runtime resumes every call and the transport answers every     *)
(* request, every call in flight settles.                                   *)
(***************************************************************************)
C26_NoRecursionAndCompletion ==
  /\ [][ \A c \in Calls :
           /\ DispatchesToken(c)
                => /\ calls'[c].req.authorization
                        = BasicHeader(calls'[c].tokAuth.clientId,
                                      calls'[c].tokAuth.clientSecret)
                   /\ calls[c].tokenCalls = 0
                   /\ calls[c].fetchCalls = 0
           /\ Moves(c)
                => /\ After(c).tokenCalls <= 1
                   /\ After(c).fetchCalls <= 1
                   /\ After(c).tokenCalls >= calls[c].tokenCalls
                   /\ After(c).fetchCalls >= calls[c].fetchCalls
                   /\ (calls[c].fetchCalls = 1) => After(c).pc = "done" ]_vars
  /\ \A c \in Calls : (calls[c].pc # "idle") ~> (calls[c].pc = "idle")

\* A fetch with withAuth has returned after one token request and one resource
\* request.
C26_Witness ==
  /\ last.op = "fetch"
  /\ last.withAuth = "instance"
  /\ last.outcome = "returned"
  /\ last.tokenCalls = 1
  /\ last.fetchCalls = 1
  /\ last.req.authorization = "Bearer tokA"

(***************************************************************************)
(* C27.  No step of a fetch changes the instance default headers or the     *)
(* instance auth, and the request of a fetch without withAuth carries the   *)
(* Authorization header of its own init when the init has one, else the one *)
(* of the instance default headers, else none: whatever the fetches before  *)
(* it resolved for their own requests.                                      *)
(***************************************************************************)
C27_AuthorizationNeverLeaks ==
  [][ /\ (calls' # calls \/ last' # last) => (headers' = headers /\ auth' = auth)
      /\ \A c \in Calls :
           (DispatchesResource(c) /\ calls'[c].op = "fetch"
              /\ calls'[c].withAuth = "none")
             => LET own == HeadersFrom(calls'[c].init.headers)
                IN  calls'[c].req.authorization =
                      IF "authorization" \in DOMAIN own THEN own["authorization"]
                      ELSE IF "authorization" \in DOMAIN headers
                        THEN headers["authorization"]
                      ELSE Undef ]_vars

\* After a fetch with withAuth === true returned, whose request carried the
\* Bearer header of a fresh token, a fetch without withAuth and without an
\* Authorization header of its own has handed over a request without one.
C27_Witness ==
  /\ started = 2
  /\ last.op = "fetch"
  /\ last.withAuth = "instance"
  /\ last.outcome = "returned"
  /\ last.req.authorization = "Bearer tokA"
  /\ calls["c1"].pc = "resWait"
  /\ calls["c1"].withAuth = "none"
  /\ "authorization" \notin DOMAIN headers
  /\ calls["c1"].req.authorization = Undef

\* A call of getAccessToken starts in this step, with credentials of the
\* clientId, clientSecret and scope of the cached, unexpired token and another
\* token url than the request that produced it.
StartsWithOtherUrl ==
  /\ Started
  /\ NewCall.op = "getAccessToken"
  /\ accessToken = NoToken
  /\ HasClientPair(NewCall.authArg)
  /\ token # NoToken
  /\ now < tokenExpiresOn
  /\ SameParams(NewCall.authArg, tokenRequestDetails)
  /\ TokenUrlOf(NewCall.authArg) # TokenUrlOf(tokenRequestDetails)

\* The call that started returned the cached token without a request.
ReturnedCachedToken ==
  /\ NewCall.pc = "done"
  /\ NewCall.outcome = "returned"
  /\ NewCall.tok = token
  /\ NewCall.tokenCalls = 0
  /\ UNCHANGED << cache, dispatched >>

(***************************************************************************)
(* C28 as stated.  A getAccessToken call with the clientId, clientSecret    *)
(* and scope of the cached token, made before the token expires, returns    *)
(* the cached token and issues no request, whatever token url it names.     *)
(***************************************************************************)
C28_ReusedWhateverTheUrl ==
  [][ StartsWithOtherUrl => ReturnedCachedToken ]_vars

(***************************************************************************)
(* C28.  A getAccessToken call with the clientId, clientSecret and scope of *)
(* the cached token, made before the token expires and naming another token *)
(* url, returns the cached token and issues no request when the url can be  *)
(* resolved against the base URL; when it cannot, the call raises the       *)
(* TypeError of the URL parser, also without a request.                     *)
(***************************************************************************)
C28_ReusedWhateverTheResolvableUrl ==
  [][ StartsWithOtherUrl
        => IF ValidUrl(TokenUrlOf(NewCall.authArg), baseUrl)
             THEN ReturnedCachedToken
             ELSE /\ NewCall.pc = "done"
                  /\ NewCall.outcome = "threw"
                  /\ NewCall.error = InvalidUrlError
                  /\ NewCall.tokenCalls = 0
                  /\ UNCHANGED << cache, dispatched >> ]_vars

\* The token cached by a request to the default token url was returned to a
\* call that named the token url "/t".
C28_Witness ==
  /\ started = 2
  /\ dispatched = 1
  /\ last.op = "getAccessToken"
  /\ last.outcome = "returned"
  /\ last.authArg.url = "/t"
  /\ last.authArg.scope = Undef
  /\ tokenRequestDetails.url = DEFAULT_AUTH_URL
  /\ last.tok = token
  /\ now < tokenExpiresOn
  /\ last.tokenCalls = 0

=============================================================================
